---- MODULE Spec2Model ----
(***************************************************************************)
(* Light-swarm monitor: the device process (raspi_code.py) and the web     *)
(* server process (raspi_server_code.py).                                  *)
(*                                                                         *)
(* Time is in whole seconds (time.time() truncated); a duration is a       *)
(* number of seconds; the text of a duration in a log ("{d:.2f}") is kept  *)
(* in hundredths of a second; the text of a timestamp (isoformat) is kept  *)
(* in microseconds.  A node is named by the rank of its IP address in the  *)
(* lexicographic order of the address strings:                             *)
(*   1 = "192.168.137.165" (GREEN), 2 = "192.168.137.34" (BLUE),           *)
(*   3 = "192.168.137.35" (RED).                                           *)
(***************************************************************************)
EXTENDS Integers, Sequences, FiniteSets, TLC

\* ------------------------------------------------------------------------
\* Bounds of the model
\* ------------------------------------------------------------------------
MaxTime == 2
MaxMsgs == 2
MaxPresses == 2
MaxAccLen == 3
MaxRequests == 3
MaxLogLen == 4
MaxBurst == 4

\* ------------------------------------------------------------------------
\* Program constants
\* ------------------------------------------------------------------------
NumNodes == 3
MAX_DATA_POINTS == 1000
TIME_WINDOW == 30
GRAPH_TIME_WINDOW == 30
NUM_ROWS == 8
StartOfTime == 1

\* ROW_TIME = 30.0 / 8.0, as numerator and denominator
ROW_TIME == <<30, 8>>

None == -1

ip_led_map == <<"GREEN", "BLUE", "RED">>

Nodes == 1..NumNodes

\* ------------------------------------------------------------------------
\* Conversions
\* ------------------------------------------------------------------------
\* f"{d:.2f}" of a whole number of seconds, in hundredths
Fmt2(d) == d * 100

\* datetime.isoformat() of a whole second, in microseconds
IsoFormat(t) == t * 1000000

\* datetime.fromisoformat(s).timestamp()
FromIsoFormat(u) == u \div 1000000

\* str(bool), as written in a row
BoolText(b) == IF b THEN "True" ELSE "False"

\* parts[4].lower() == 'true'
ParseIsMaster(s) == s \in {"True", "true", "TRUE"}

\* Python truthiness of a number-or-None
Truthy(x) == x # None /\ x # 0

ZeroDurations == [ip \in Nodes |-> 0]

Event(t, ip, v, m) == [timestamp |-> t, ip |-> ip, value |-> v, is_master |-> m]

\* deque(maxlen=n).append
DequeAppend(q, e, n) == IF Len(q) >= n THEN Append(Tail(q), e) ELSE Append(q, e)

\* ------------------------------------------------------------------------
\* The accumulators
\* ------------------------------------------------------------------------
ScanInit == [dur |-> ZeroDurations, last_master |-> None, last_time |-> None]

\* the loop body that credits every gap to the previous master, whichever
\* node the next master event is of
DeviceScanStepCreditPrevious(st, point, cutoff_time) ==
    IF point.timestamp >= cutoff_time /\ point.is_master
    THEN [dur |-> IF st.last_master # None /\ st.last_time # None
                  THEN [st.dur EXCEPT ![st.last_master] = @ + (point.timestamp - st.last_time)]
                  ELSE st.dur,
          last_master |-> point.ip,
          last_time |-> point.timestamp]
    ELSE st

\* the loop body in which an event that is not a master event ends the
\* interval of the last master
DeviceScanStepNonMasterEnds(st, point, cutoff_time) ==
    IF point.timestamp >= cutoff_time
    THEN IF point.is_master
         THEN [dur |-> IF st.last_master = point.ip /\ st.last_time # None
                       THEN [st.dur EXCEPT ![point.ip] = @ + (point.timestamp - st.last_time)]
                       ELSE st.dur,
               last_master |-> point.ip,
               last_time |-> point.timestamp]
         ELSE [st EXCEPT !.last_master = None, !.last_time = None]
    ELSE st

\* raspi_code.py: the body of the loop of update_master_duration
DeviceScanStep(st, point, cutoff_time) ==
    IF point.timestamp >= cutoff_time /\ point.is_master
    THEN [dur |-> IF st.last_master = point.ip /\ st.last_time # None
                  THEN [st.dur EXCEPT ![point.ip] = @ + (point.timestamp - st.last_time)]
                  ELSE st.dur,
          last_master |-> point.ip,
          last_time |-> point.timestamp]
    ELSE st

RECURSIVE DeviceScan(_, _, _)
DeviceScan(data, n, cutoff_time) ==
    IF n = 0 THEN ScanInit
    ELSE DeviceScanStep(DeviceScan(data, n - 1, cutoff_time), data[n], cutoff_time)

\* an accumulator that credits the interval from the last master event to now
\* to every node
update_master_duration_credits_all(data, cutoff_time, current_time) ==
    LET st == DeviceScan(data, Len(data), cutoff_time)
    IN  IF st.last_master # None /\ st.last_time # None
        THEN [ip \in Nodes |-> st.dur[ip] + (current_time - st.last_time)]
        ELSE st.dur

\* the accumulator without the interval from the last master event to now
update_master_duration_closed_only(data, cutoff_time, current_time) ==
    DeviceScan(data, Len(data), cutoff_time).dur

\* raspi_code.py update_master_duration: the new master_duration_data
update_master_duration(data, cutoff_time, current_time) ==
    LET st == DeviceScan(data, Len(data), cutoff_time)
    IN  IF st.last_master # None /\ st.last_time # None
        THEN [st.dur EXCEPT ![st.last_master] = @ + (current_time - st.last_time)]
        ELSE st.dur

\* int(a / b) of Python, for b > 0: the quotient truncated toward zero
IntQuotient(a, b) == IF a >= 0 THEN a \div b ELSE -((-a) \div b)

\* min(a, b) of Python
Min2(a, b) == IF a <= b THEN a ELSE b

\* raspi_code.py calculate_matrix_graph, lines 549-576: master_durations, by
\* the loop of update_master_duration over the live buffer and the window of
\* the display
matrix_master_durations(graph, current_time) ==
    update_master_duration(graph, current_time - GRAPH_TIME_WINDOW, current_time)

\* a bar chart that grows from row 0
calculate_matrix_graph_from_top(graph, current_time) ==
    LET master_durations == matrix_master_durations(graph, current_time)
    IN  [ip \in Nodes |->
            LET rows_to_light ==
                    Min2(IntQuotient(master_durations[ip] * ROW_TIME[2], ROW_TIME[1]),
                         NUM_ROWS)
            IN  [row \in 0..(NUM_ROWS - 1) |-> IF row < rows_to_light THEN 2 ELSE 0]]

\* raspi_code.py calculate_matrix_graph: row_values of each node (the source
\* keys them by the rank of the address, from 0)
calculate_matrix_graph(graph, current_time) ==
    LET master_durations == matrix_master_durations(graph, current_time)
    IN  [ip \in Nodes |->
            LET rows_to_light ==
                    Min2(IntQuotient(master_durations[ip] * ROW_TIME[2], ROW_TIME[1]),
                         NUM_ROWS)
            IN  [row \in 0..(NUM_ROWS - 1) |->
                    IF row >= NUM_ROWS - rows_to_light THEN 2 ELSE 0]]

\* raspi_server_code.py calculate_master_duration_for_ip
RECURSIVE DurationForIpScan(_, _, _)
DurationForIpScan(buf, n, target_ip) ==
    IF n = 0 THEN [duration |-> 0, last_master_ip |-> None, last_time |-> None]
    ELSE LET st == DurationForIpScan(buf, n - 1, target_ip)
             point == buf[n]
         IN  IF point.is_master
             THEN [duration |-> IF st.last_master_ip = point.ip /\ Truthy(st.last_time)
                                   /\ point.ip = target_ip
                                THEN st.duration + (point.timestamp - st.last_time)
                                ELSE st.duration,
                   last_master_ip |-> point.ip,
                   last_time |-> point.timestamp]
             ELSE st

calculate_master_duration_for_ip(buf, target_ip) ==
    DurationForIpScan(buf, Len(buf), target_ip).duration

\* raspi_server_code.py calculate_master_durations_from_buffer: the loop
RECURSIVE ServerScan(_, _)
ServerScan(buf, n) ==
    IF n = 0 THEN ScanInit
    ELSE LET st == ServerScan(buf, n - 1)
             point == buf[n]
         IN  IF point.is_master
             THEN [dur |-> IF st.last_master # None /\ Truthy(st.last_time)
                           THEN [st.dur EXCEPT ![st.last_master] =
                                                  @ + (point.timestamp - st.last_time)]
                           ELSE st.dur,
                   last_master |-> point.ip,
                   last_time |-> point.timestamp]
             ELSE st

\* calculate_master_durations_from_buffer; master_durations.get(ip, 0.0) is
\* the value at ip
calculate_master_durations_from_buffer(buf, start_time, current_time) ==
    LET st == ServerScan(buf, Len(buf))
    IN  IF st.last_master # None /\ Truthy(st.last_time) /\ Truthy(start_time)
        THEN [st.dur EXCEPT ![st.last_master] = @ + (current_time - st.last_time)]
        ELSE st.dur

\* ------------------------------------------------------------------------
\* Log files: a file is the sequence of its lines
\* ------------------------------------------------------------------------
Malformed == -2

StartedLine(t) == [kind |-> "comment", tag |-> "Session started", at |-> IsoFormat(t)]

HeaderLine == [kind |-> "header"]

BlankLine == [kind |-> "blank"]

RowLine(t, ip, name, value, is_master, master_duration, session_elapsed) ==
    [kind |-> "row", nfields |-> 7, timestamp |-> IsoFormat(t), ip |-> ip,
     name |-> name, value |-> value, is_master |-> BoolText(is_master),
     master_duration |-> Fmt2(master_duration),
     session_elapsed |-> Fmt2(session_elapsed)]

EndedLine(t) == [kind |-> "comment", tag |-> "Session ended", at |-> IsoFormat(t)]

TotalLine(d) == [kind |-> "comment", tag |-> "Total session duration", seconds |-> Fmt2(d)]

SummaryTitleLine == [kind |-> "comment", tag |-> "MASTER SUMMARY"]

SummaryHeaderLine == [kind |-> "comment", tag |-> "IP Address,Name,Total Duration (seconds)"]

SummaryLine(ip, name, d) ==
    [kind |-> "comment", tag |-> "summary", ip |-> ip, name |-> name, duration |-> Fmt2(d)]

\* sorted(s) of a set of nodes
RECURSIVE SortedSeq(_)
SortedSeq(S) ==
    IF S = {} THEN <<>>
    ELSE LET m == CHOOSE x \in S : \A y \in S : x <= y
         IN  <<m>> \o SortedSeq(S \ {m})

IsRow(l) == l.kind = "row"

IsEnded(l) == l.kind = "comment" /\ l.tag = "Session ended"

IsSummary(l) == l.kind = "comment" /\ l.tag = "summary"

\* ------------------------------------------------------------------------
\* raspi_server_code.py analyze_log_file
\* ------------------------------------------------------------------------
\* the parser, had it converted column 6 inside the try block, as it does
\* column 4: a row whose master_duration_seconds does not convert is dropped
RECURSIVE ParseLinesReadsDuration(_, _)
ParseLinesReadsDuration(lines, n) ==
    IF n = 0 THEN [in_data_section |-> FALSE, data_points |-> <<>>]
    ELSE LET st == ParseLinesReadsDuration(lines, n - 1)
             line == lines[n]
         IN  IF line.kind \in {"comment", "blank"} THEN st
             ELSE IF line.kind = "header" THEN [st EXCEPT !.in_data_section = TRUE]
             ELSE IF st.in_data_section /\ line.nfields >= 5
                     /\ line.value # Malformed /\ line.timestamp # Malformed
                     /\ line.master_duration # Malformed
             THEN [st EXCEPT !.data_points = Append(@,
                       [timestamp |-> FromIsoFormat(line.timestamp), ip |-> line.ip,
                        name |-> line.name, value |-> line.value,
                        is_master |-> ParseIsMaster(line.is_master)])]
             ELSE st

\* the parser, had it no try block around a row: the first row that does not
\* convert ends the reading
RECURSIVE ParseLinesStopsAtBadRow(_, _)
ParseLinesStopsAtBadRow(lines, n) ==
    IF n = 0 THEN [in_data_section |-> FALSE, data_points |-> <<>>, stopped |-> FALSE]
    ELSE LET st == ParseLinesStopsAtBadRow(lines, n - 1)
             line == lines[n]
         IN  IF st.stopped \/ line.kind \in {"comment", "blank"} THEN st
             ELSE IF line.kind = "header" THEN [st EXCEPT !.in_data_section = TRUE]
             ELSE IF ~st.in_data_section \/ line.nfields < 5 THEN st
             ELSE IF line.value = Malformed \/ line.timestamp = Malformed
             THEN [st EXCEPT !.stopped = TRUE]
             ELSE [st EXCEPT !.data_points = Append(@,
                       [timestamp |-> FromIsoFormat(line.timestamp), ip |-> line.ip,
                        name |-> line.name, value |-> line.value,
                        is_master |-> ParseIsMaster(line.is_master)])]

\* lines 236-276: the data points of the parseable rows after the header
RECURSIVE ParseLines(_, _)
ParseLines(lines, n) ==
    IF n = 0 THEN [in_data_section |-> FALSE, data_points |-> <<>>]
    ELSE LET st == ParseLines(lines, n - 1)
             line == lines[n]
         IN  IF line.kind \in {"comment", "blank"} THEN st
             ELSE IF line.kind = "header" THEN [st EXCEPT !.in_data_section = TRUE]
             ELSE IF st.in_data_section /\ line.nfields >= 5
                     /\ line.value # Malformed /\ line.timestamp # Malformed
             THEN [st EXCEPT !.data_points = Append(@,
                       [timestamp |-> FromIsoFormat(line.timestamp), ip |-> line.ip,
                        name |-> line.name, value |-> line.value,
                        is_master |-> ParseIsMaster(line.is_master)])]
             ELSE st

\* list.sort(key=timestamp): stable
RECURSIVE InsertByTimestamp(_, _)
InsertByTimestamp(sorted, p) ==
    IF sorted = <<>> THEN <<p>>
    ELSE IF sorted[Len(sorted)].timestamp <= p.timestamp THEN Append(sorted, p)
    ELSE Append(InsertByTimestamp(SubSeq(sorted, 1, Len(sorted) - 1), p),
                sorted[Len(sorted)])

\* the data points left in file order
KeepFileOrder(points, n) == SubSeq(points, 1, n)

RECURSIVE SortByTimestamp(_, _)
SortByTimestamp(points, n) ==
    IF n = 0 THEN <<>>
    ELSE InsertByTimestamp(SortByTimestamp(points, n - 1), points[n])

\* lines 292-303
RECURSIVE AnalyzeScan(_, _)
AnalyzeScan(points, n) ==
    IF n = 0 THEN [duration |-> ZeroDurations, count |-> ZeroDurations,
                   last_master_ip |-> None, last_time |-> None]
    ELSE LET st == AnalyzeScan(points, n - 1)
             point == points[n]
         IN  IF point.is_master
             THEN IF st.last_master_ip = point.ip /\ Truthy(st.last_time)
                  THEN [duration |-> [st.duration EXCEPT ![point.ip] =
                                          @ + (point.timestamp - st.last_time)],
                        count |-> [st.count EXCEPT ![point.ip] = @ + 1],
                        last_master_ip |-> point.ip,
                        last_time |-> point.timestamp]
                  ELSE [st EXCEPT !.last_master_ip = point.ip,
                                  !.last_time = point.timestamp]
             ELSE st

NoAnalysis == [ok |-> FALSE]

analyze_log_file(lines) ==
    LET parsed == ParseLines(lines, Len(lines)).data_points
        data_points == SortByTimestamp(parsed, Len(parsed))
        all_nodes == {data_points[i].ip : i \in 1..Len(data_points)}
        scan == AnalyzeScan(data_points, Len(data_points))
        masters == {ip \in all_nodes : scan.duration[ip] > 0}
    IN  IF data_points = <<>> THEN NoAnalysis
        ELSE [ok |-> TRUE,
              data_points |-> data_points,
              master_durations |->
                  [ip \in masters |-> [duration |-> scan.duration[ip],
                                       count |-> scan.count[ip]]],
              start_time |-> IsoFormat(data_points[1].timestamp),
              end_time |-> IsoFormat(data_points[Len(data_points)].timestamp),
              duration |-> data_points[Len(data_points)].timestamp
                              - data_points[1].timestamp,
              total_points |-> Len(data_points),
              num_masters |-> Cardinality(masters)]

\* a path on the server's disk: whether a file is there, whether open() succeeds
\* on it, and its lines
MissingFile == [exists |-> FALSE, readable |-> FALSE, lines |-> <<>>]

UnreadableFile == [exists |-> TRUE, readable |-> FALSE, lines |-> <<>>]

EmptyFile == [exists |-> TRUE, readable |-> TRUE, lines |-> <<>>]

\* analyze_log_file(filepath): open() raises on a missing or unreadable file,
\* and the exception is caught at line 326
analyze_log_file_at(f) ==
    IF ~f.exists \/ ~f.readable THEN NoAnalysis ELSE analyze_log_file(f.lines)

\* analyze_log_endpoint, lines 1246-1254, for a valid name and source
analyze_log_endpoint(f) ==
    IF ~f.exists
    THEN [status |-> 404, error |-> "File not found", analysis |-> NoAnalysis]
    ELSE LET analysis == analyze_log_file_at(f)
         IN  IF ~analysis.ok
             THEN [status |-> 500, error |-> "Could not analyze log file",
                   analysis |-> NoAnalysis]
             ELSE [status |-> 200, error |-> "", analysis |-> analysis]

\* ------------------------------------------------------------------------
\* State
\* ------------------------------------------------------------------------
VARIABLES
    now,                        \* the wall clock, in seconds
    \* raspi_code.py globals
    node_values, node_is_master, last_update_time,
    graph_data_unified, master_duration_data, graph_start_time,
    logging_active, session_start_time, session_data, all_masters_in_session,
    log_file, log_filename,
    dev_fs,                     \* the device's directory: file name -> lines
    dev_open,                   \* number of file objects opened and not closed
    shutdown_flag,
    \* threads of the device: position, and the locals they hold
    pc, point, btn_outcome, presses, msgs,
    current_master,             \* local of send_to_web_server
    \* raspi_server_code.py globals
    latest_logging_active, current_log_file, session_data_buffer,
    srv_all_masters_in_session, srv_session_start_time,
    srv_fs,                     \* webserver_logs: file name -> lines
    srv_status,                 \* status of the last reply to a button action
    srv_open,                   \* number of file objects opened and not closed
    serving,                    \* app.run has not returned
    \* inputs and result of a direct call of the accumulator
    acc_events, acc_cutoff, acc_now, acc_out,
    \* the file of a request to /api/logs/analyze, and the reply
    an_file, an_out,
    \* number of requests sent to the server by other clients than the device
    requests

dev_vars == <<node_values, node_is_master, last_update_time, graph_data_unified,
              master_duration_data, graph_start_time, logging_active,
              session_start_time, session_data, all_masters_in_session,
              log_file, log_filename, dev_fs, dev_open, shutdown_flag>>

thread_vars == <<pc, point, btn_outcome, presses, msgs>>

srv_vars == <<latest_logging_active, current_log_file, session_data_buffer,
              srv_all_masters_in_session, srv_session_start_time, srv_fs, srv_status,
              srv_open, serving>>

acc_vars == <<acc_events, acc_cutoff, acc_now, acc_out>>

an_vars == <<an_file, an_out>>

web_vars == <<current_master>>

call_vars == <<acc_vars, an_vars, requests, web_vars>>

vars == <<now, dev_vars, thread_vars, srv_vars, call_vars>>

Threads == {"button", "udp", "web", "main"}

NoFile == [name |-> None, closed |-> TRUE]

\* `f and not f.closed`
IsOpen(f) == f.name # None /\ ~f.closed

NoPoint == Event(None, None, None, FALSE)

\* open(name, 'w'): the file is created, or truncated
OpenForWrite(fs, name) ==
    [n \in DOMAIN fs \cup {name} |-> IF n = name THEN <<>> ELSE fs[n]]

\* f.write of some lines
WriteLines(fs, name, lines) == [fs EXCEPT ![name] = @ \o lines]

\* the open file objects after `if f and not f.closed: f.close()`
CloseIfOpen(f, open_count) == IF IsOpen(f) THEN open_count - 1 ELSE open_count

InitDevice ==
    /\ node_values = [ip \in Nodes |-> 0]
    /\ node_is_master = [ip \in Nodes |-> FALSE]
    /\ last_update_time = [ip \in Nodes |-> None]
    /\ graph_data_unified = <<>>
    /\ master_duration_data = ZeroDurations
    /\ graph_start_time = None
    /\ logging_active = FALSE
    /\ session_start_time = None
    /\ session_data = <<>>
    /\ all_masters_in_session = {}
    /\ log_file = NoFile
    /\ log_filename = None
    /\ dev_fs = <<>>
    /\ dev_open = 0
    /\ shutdown_flag = FALSE

InitThreads ==
    /\ pc = [th \in Threads |-> "idle"]
    /\ point = NoPoint
    /\ btn_outcome = "none"
    /\ presses = 0
    /\ msgs = 0

InitServer ==
    /\ latest_logging_active = FALSE
    /\ current_log_file = NoFile
    /\ session_data_buffer = <<>>
    /\ srv_all_masters_in_session = {}
    /\ srv_session_start_time = None
    /\ srv_fs = <<>>
    /\ srv_status = 0
    /\ srv_open = 0
    /\ serving = TRUE

\* what a direct call returns: the device's accumulator, the server's
AccResult(events, cutoff_time, current_time) ==
    [device |-> update_master_duration(events, cutoff_time, current_time),
     server |-> calculate_master_durations_from_buffer(events, StartOfTime, current_time),
     graph |-> matrix_master_durations(events, current_time),
     matrix |-> calculate_matrix_graph(events, current_time)]

InitAccIdle ==
    /\ acc_events = <<>>
    /\ acc_cutoff = 0
    /\ acc_now = 0
    /\ acc_out = AccResult(<<>>, 0, 0)
    /\ requests = 0

InitAnIdle ==
    /\ an_file = MissingFile
    /\ an_out = analyze_log_endpoint(MissingFile)

InitWebIdle == current_master = None

Init ==
    /\ now = StartOfTime
    /\ InitDevice
    /\ InitThreads
    /\ InitServer
    /\ InitAccIdle
    /\ InitAnIdle
    /\ InitWebIdle

\* ------------------------------------------------------------------------
\* The server: request handlers, each run under data_lock
\* ------------------------------------------------------------------------
\* the footer lines of stop_local_logging_session, lines 95-115
SrvFooter ==
    LET session_duration == IF Truthy(srv_session_start_time)
                            THEN now - srv_session_start_time ELSE 0
        master_durations == calculate_master_durations_from_buffer(
                                session_data_buffer, srv_session_start_time, now)
        ips == SortedSeq(srv_all_masters_in_session)
    IN  <<BlankLine, EndedLine(now), TotalLine(session_duration),
          BlankLine, SummaryTitleLine, SummaryHeaderLine>>
        \o [i \in 1..Len(ips) |->
               SummaryLine(ips[i], ip_led_map[ips[i]], master_durations[ips[i]])]

\* a start that opens the new log and leaves the open one open
SrvStartKeepsOpen ==
    /\ serving
    /\ srv_open' = srv_open + 1
    /\ UNCHANGED serving
    /\ srv_fs' = WriteLines(OpenForWrite(srv_fs, now), now, <<StartedLine(now), HeaderLine>>)
    /\ current_log_file' = [name |-> now, closed |-> FALSE]
    /\ session_data_buffer' = <<>>
    /\ srv_all_masters_in_session' = {}
    /\ srv_session_start_time' = now
    /\ latest_logging_active' = TRUE
    /\ srv_status' = 200

\* start_local_logging_session, and lines 1114-1116 of receive_data
SrvStart ==
    /\ serving
    /\ srv_open' = CloseIfOpen(current_log_file, srv_open) + 1
    /\ UNCHANGED serving
    /\ srv_fs' = WriteLines(OpenForWrite(srv_fs, now), now, <<StartedLine(now), HeaderLine>>)
    /\ current_log_file' = [name |-> now, closed |-> FALSE]
    /\ session_data_buffer' = <<>>
    /\ srv_all_masters_in_session' = {}
    /\ srv_session_start_time' = now
    /\ latest_logging_active' = TRUE
    /\ srv_status' = 200

\* start_local_logging_session when open() raises: the handler replies 400
SrvStartOpenFails ==
    /\ serving
    /\ srv_open' = CloseIfOpen(current_log_file, srv_open)
    /\ UNCHANGED serving
    /\ current_log_file' = [current_log_file EXCEPT !.closed = TRUE]
    /\ srv_status' = 400
    /\ UNCHANGED <<srv_fs, session_data_buffer, srv_all_masters_in_session,
                   srv_session_start_time, latest_logging_active>>

\* a stop that resets the flag of the dashboard and leaves the log as it is
SrvStopKeepsLog ==
    /\ serving
    /\ latest_logging_active' = FALSE
    /\ srv_status' = 200
    /\ UNCHANGED <<srv_open, serving, srv_fs, current_log_file, session_data_buffer,
                   srv_all_masters_in_session, srv_session_start_time>>

\* stop_local_logging_session, and lines 1120-1122 of receive_data
SrvStop ==
    /\ serving
    /\ srv_open' = CloseIfOpen(current_log_file, srv_open)
    /\ UNCHANGED serving
    /\ IF IsOpen(current_log_file)
       THEN /\ srv_fs' = WriteLines(srv_fs, current_log_file.name, SrvFooter)
            /\ current_log_file' = NoFile
       ELSE UNCHANGED <<srv_fs, current_log_file>>
    /\ latest_logging_active' = FALSE
    /\ srv_status' = 200
    /\ UNCHANGED <<session_data_buffer, srv_all_masters_in_session, srv_session_start_time>>

\* receive_data without the test of lines 1146-1150: every point of the
\* payload is logged
RECURSIVE SrvLogPointsAgain(_, _)
SrvLogPointsAgain(graph_data, n) ==
    IF n = 0 THEN [buf |-> session_data_buffer, masters |-> srv_all_masters_in_session,
                   rows |-> <<>>]
    ELSE LET st == SrvLogPointsAgain(graph_data, n - 1)
             p == graph_data[n]
             buf == Append(st.buf, p)
             session_elapsed == IF Truthy(srv_session_start_time)
                                THEN now - srv_session_start_time ELSE 0
         IN  IF ~IsOpen(current_log_file) THEN st
             ELSE [buf |-> buf,
                   masters |-> IF p.is_master THEN st.masters \cup {p.ip} ELSE st.masters,
                   rows |-> Append(st.rows,
                              RowLine(p.timestamp, p.ip, ip_led_map[p.ip], p.value,
                                      p.is_master,
                                      calculate_master_duration_for_ip(buf, p.ip),
                                      session_elapsed))]

\* receive_data lines 1143-1151 with log_data_point_to_file, over the first n
\* points of graph_data: the buffer, the master set and the rows written
RECURSIVE SrvLogPoints(_, _)
SrvLogPoints(graph_data, n) ==
    IF n = 0 THEN [buf |-> session_data_buffer, masters |-> srv_all_masters_in_session,
                   rows |-> <<>>]
    ELSE LET st == SrvLogPoints(graph_data, n - 1)
             p == graph_data[n]
             logged == \E i \in 1..Len(st.buf) :
                          st.buf[i].timestamp = p.timestamp /\ st.buf[i].ip = p.ip
             buf == Append(st.buf, p)
             session_elapsed == IF Truthy(srv_session_start_time)
                                THEN now - srv_session_start_time ELSE 0
         IN  IF logged \/ ~IsOpen(current_log_file) THEN st
             ELSE [buf |-> buf,
                   masters |-> IF p.is_master THEN st.masters \cup {p.ip} ELSE st.masters,
                   rows |-> Append(st.rows,
                              RowLine(p.timestamp, p.ip, ip_led_map[p.ip], p.value,
                                      p.is_master,
                                      calculate_master_duration_for_ip(buf, p.ip),
                                      session_elapsed))]

\* receive_data, the regular update: lines 1130-1151
SrvData(payload) ==
    /\ serving
    /\ UNCHANGED <<srv_open, serving>>
    /\ latest_logging_active' = payload.logging_active
    /\ IF payload.logging_active /\ IsOpen(current_log_file)
       THEN LET st == SrvLogPoints(payload.graph_data, Len(payload.graph_data))
            IN  /\ session_data_buffer' = st.buf
                /\ srv_all_masters_in_session' = st.masters
                /\ srv_fs' = WriteLines(srv_fs, current_log_file.name, st.rows)
       ELSE UNCHANGED <<session_data_buffer, srv_all_masters_in_session, srv_fs>>
    /\ UNCHANGED <<current_log_file, srv_session_start_time, srv_status>>

\* ------------------------------------------------------------------------
\* The device: the clock
\* ------------------------------------------------------------------------
Tick ==
    /\ now < MaxTime
    /\ now' = now + 1
    /\ UNCHANGED <<dev_vars, thread_vars, srv_vars, call_vars>>

Goto(th, label) == pc' = [pc EXCEPT ![th] = label]

\* ------------------------------------------------------------------------
\* The device: the button thread
\* ------------------------------------------------------------------------
\* button_pressed, lines 488-491
button_pressed ==
    /\ pc["button"] = "idle"
    /\ presses < MaxPresses
    /\ presses' = presses + 1
    /\ Goto("button", IF ~logging_active THEN "start_open" ELSE "stop_enter")
    /\ UNCHANGED <<now, dev_vars, point, btn_outcome, msgs, srv_vars, call_vars>>

\* start_logging_session, lines 368-380
StartOpen ==
    /\ pc["button"] = "start_open"
    /\ log_filename' = now
    /\ dev_fs' = WriteLines(OpenForWrite(dev_fs, now), now, <<StartedLine(now), HeaderLine>>)
    /\ log_file' = [name |-> now, closed |-> FALSE]
    /\ dev_open' = CloseIfOpen(log_file, dev_open) + 1
    /\ logging_active' = TRUE
    /\ session_start_time' = now
    /\ Goto("button", "start_clear")
    /\ UNCHANGED <<now, node_values, node_is_master, last_update_time, graph_data_unified,
                   master_duration_data, graph_start_time, session_data,
                   all_masters_in_session, shutdown_flag,
                   point, btn_outcome, presses, msgs, srv_vars, call_vars>>

\* start_logging_session, line 381
StartClear ==
    /\ pc["button"] = "start_clear"
    /\ session_data' = <<>>
    /\ Goto("button", "start_reset")
    /\ UNCHANGED <<now, node_values, node_is_master, last_update_time, graph_data_unified,
                   master_duration_data, graph_start_time, logging_active,
                   session_start_time, all_masters_in_session, log_file, log_filename, dev_open,
                   dev_fs, shutdown_flag,
                   point, btn_outcome, presses, msgs, srv_vars, call_vars>>

\* a start that empties the live buffer and keeps the master set and the
\* durations
StartResetKeepsMasters ==
    /\ pc["button"] = "start_reset"
    /\ graph_data_unified' = <<>>
    /\ Goto("button", "start_post")
    /\ UNCHANGED <<now, node_values, node_is_master, last_update_time,
                   master_duration_data, all_masters_in_session,
                   graph_start_time, logging_active, session_start_time, session_data,
                   log_file, log_filename, dev_open, dev_fs, shutdown_flag,
                   point, btn_outcome, presses, msgs, srv_vars, call_vars>>

\* start_logging_session, lines 382-389
StartReset ==
    /\ pc["button"] = "start_reset"
    /\ all_masters_in_session' = {}
    /\ master_duration_data' = ZeroDurations
    /\ graph_data_unified' = <<>>
    /\ Goto("button", "start_post")
    /\ UNCHANGED <<now, node_values, node_is_master, last_update_time,
                   graph_start_time, logging_active, session_start_time, session_data,
                   log_file, log_filename, dev_open, dev_fs, shutdown_flag,
                   point, btn_outcome, presses, msgs, srv_vars, call_vars>>

\* start_logging_session, lines 400-403: the notification reaches the server
StartPostDelivered ==
    /\ pc["button"] = "start_post"
    /\ SrvStart
    /\ btn_outcome' = "started"
    /\ Goto("button", "idle")
    /\ UNCHANGED <<now, dev_vars, point, presses, msgs, call_vars>>

\* start_logging_session, lines 400-403: requests.post raises, and is ignored
StartPostLost ==
    /\ pc["button"] = "start_post"
    /\ btn_outcome' = "started"
    /\ Goto("button", "idle")
    /\ UNCHANGED <<now, dev_vars, point, presses, msgs, srv_vars, call_vars>>

\* the footer lines of stop_logging_session, lines 418-429
DevFooter ==
    LET session_duration == IF Truthy(session_start_time)
                            THEN now - session_start_time ELSE 0
        ips == SortedSeq(all_masters_in_session)
    IN  <<BlankLine, EndedLine(now), TotalLine(session_duration),
          BlankLine, SummaryTitleLine, SummaryHeaderLine>>
        \o [i \in 1..Len(ips) |->
               SummaryLine(ips[i], ip_led_map[ips[i]], master_duration_data[ips[i]])]

\* a stop that does not look at the flag
StopEnterUnchecked(th) ==
    /\ pc[th] = "stop_enter"
    /\ Goto(th, "stop_footer")
    /\ UNCHANGED <<now, dev_vars, point, btn_outcome, presses, msgs, srv_vars, call_vars>>

\* stop_logging_session, lines 415-416
StopEnter(th) ==
    /\ pc[th] = "stop_enter"
    /\ IF ~logging_active
       THEN /\ Goto(th, IF th = "button" THEN "idle" ELSE "cleanup")
            /\ btn_outcome' = IF th = "button" THEN "noop" ELSE btn_outcome
       ELSE /\ Goto(th, "stop_footer")
            /\ UNCHANGED btn_outcome
    /\ UNCHANGED <<now, dev_vars, point, presses, msgs, srv_vars, call_vars>>

\* stop_logging_session, lines 418-429
StopFooter(th) ==
    /\ pc[th] = "stop_footer"
    /\ IF IsOpen(log_file)
       THEN /\ dev_fs' = WriteLines(dev_fs, log_file.name, DevFooter)
            /\ Goto(th, "stop_close")
       ELSE /\ UNCHANGED dev_fs
            /\ Goto(th, "stop_post")
    /\ UNCHANGED <<now, node_values, node_is_master, last_update_time, graph_data_unified,
                   master_duration_data, graph_start_time, logging_active,
                   session_start_time, session_data, all_masters_in_session,
                   log_file, log_filename, dev_open, shutdown_flag,
                   point, btn_outcome, presses, msgs, srv_vars, call_vars>>

\* stop_logging_session, line 431
StopClose(th) ==
    /\ pc[th] = "stop_close"
    /\ log_file' = [log_file EXCEPT !.closed = TRUE]
    /\ dev_open' = CloseIfOpen(log_file, dev_open)
    /\ Goto(th, "stop_post")
    /\ UNCHANGED <<now, node_values, node_is_master, last_update_time, graph_data_unified,
                   master_duration_data, graph_start_time, logging_active,
                   session_start_time, session_data, all_masters_in_session,
                   log_filename, dev_fs, shutdown_flag,
                   point, btn_outcome, presses, msgs, srv_vars, call_vars>>

\* stop_logging_session, lines 441-444: the notification reaches the server
StopPostDelivered(th) ==
    /\ pc[th] = "stop_post"
    /\ SrvStop
    /\ Goto(th, "stop_flag")
    /\ UNCHANGED <<now, dev_vars, point, btn_outcome, presses, msgs, call_vars>>

\* stop_logging_session, lines 441-444: requests.post raises, and is ignored
StopPostLost(th) ==
    /\ pc[th] = "stop_post"
    /\ Goto(th, "stop_flag")
    /\ UNCHANGED <<now, dev_vars, point, btn_outcome, presses, msgs, srv_vars, call_vars>>

\* a stop that ends without resetting the flag
StopFlagKept(th) ==
    /\ pc[th] = "stop_flag"
    /\ Goto(th, IF th = "button" THEN "idle" ELSE "cleanup")
    /\ btn_outcome' = IF th = "button" THEN "stopped" ELSE btn_outcome
    /\ UNCHANGED <<now, dev_vars, point, presses, msgs, srv_vars, call_vars>>

\* stop_logging_session, line 457
StopFlag(th) ==
    /\ pc[th] = "stop_flag"
    /\ logging_active' = FALSE
    /\ Goto(th, IF th = "button" THEN "idle" ELSE "cleanup")
    /\ btn_outcome' = IF th = "button" THEN "stopped" ELSE btn_outcome
    /\ UNCHANGED <<now, node_values, node_is_master, last_update_time, graph_data_unified,
                   master_duration_data, graph_start_time,
                   session_start_time, session_data, all_masters_in_session,
                   log_file, log_filename, dev_open, dev_fs, shutdown_flag,
                   point, presses, msgs, srv_vars, call_vars>>

\* ------------------------------------------------------------------------
\* The device: the UDP listener thread
\* ------------------------------------------------------------------------
Prefixes == {"MASTER:", "SENSOR:", "LIGHT:"}

\* the payloads after the prefix: an integer, or text that int() rejects
Payloads == {512, Malformed}

\* the nodes that send
Senders == {1, 3}

\* a listener that records the time of the message before it parses the payload
UdpReceiveStampsFirst(sender_ip, prefix, value) ==
    /\ pc["udp"] = "idle"
    /\ ~shutdown_flag
    /\ value # Malformed => msgs < MaxMsgs /\ last_update_time[sender_ip] # now
    /\ msgs' = IF value = Malformed THEN msgs ELSE msgs + 1
    /\ graph_start_time' = IF graph_start_time = None THEN now ELSE graph_start_time
    /\ last_update_time' = [last_update_time EXCEPT ![sender_ip] = now]
    /\ IF value = Malformed
       THEN /\ UNCHANGED <<node_values, node_is_master, graph_data_unified, point, pc>>
       ELSE LET is_master == (prefix = "MASTER:")
                e == Event(now, sender_ip, value, is_master)
            IN  /\ node_values' = [node_values EXCEPT ![sender_ip] = value]
                /\ node_is_master' =
                       IF is_master THEN [ip \in Nodes |-> ip = sender_ip]
                       ELSE [node_is_master EXCEPT ![sender_ip] = FALSE]
                /\ graph_data_unified' = DequeAppend(graph_data_unified, e, MAX_DATA_POINTS)
                /\ IF logging_active
                   THEN /\ point' = e
                        /\ Goto("udp", "append")
                   ELSE UNCHANGED <<point, pc>>
    /\ UNCHANGED <<now, master_duration_data, logging_active, session_start_time,
                   session_data, all_masters_in_session, log_file, log_filename, dev_open,
                   dev_fs, shutdown_flag, btn_outcome, presses, srv_vars, call_vars>>

\* a listener that hands every event to the session, recording or not
UdpReceiveAlwaysLogs(sender_ip, prefix, value) ==
    /\ pc["udp"] = "idle"
    /\ ~shutdown_flag
    /\ value # Malformed => msgs < MaxMsgs /\ last_update_time[sender_ip] # now
    /\ msgs' = IF value = Malformed THEN msgs ELSE msgs + 1
    /\ graph_start_time' = IF graph_start_time = None THEN now ELSE graph_start_time
    /\ IF value = Malformed
       THEN /\ UNCHANGED <<node_values, node_is_master, last_update_time,
                           graph_data_unified, point, pc>>
       ELSE LET is_master == (prefix = "MASTER:")
                e == Event(now, sender_ip, value, is_master)
            IN  /\ node_values' = [node_values EXCEPT ![sender_ip] = value]
                /\ node_is_master' =
                       IF is_master THEN [ip \in Nodes |-> ip = sender_ip]
                       ELSE [node_is_master EXCEPT ![sender_ip] = FALSE]
                /\ last_update_time' = [last_update_time EXCEPT ![sender_ip] = now]
                /\ graph_data_unified' = DequeAppend(graph_data_unified, e, MAX_DATA_POINTS)
                /\ point' = e
                /\ Goto("udp", "append")
    /\ UNCHANGED <<now, master_duration_data, logging_active, session_start_time,
                   session_data, all_masters_in_session, log_file, log_filename, dev_open, dev_fs,
                   shutdown_flag, btn_outcome, presses, srv_vars, call_vars>>

\* udp_listener, lines 756-798 and 814-829: one message is received.  The
\* well-formed messages of a node are at least one clock second apart.
UdpReceive(sender_ip, prefix, value) ==
    /\ pc["udp"] = "idle"
    /\ ~shutdown_flag
    /\ value # Malformed => msgs < MaxMsgs /\ last_update_time[sender_ip] # now
    /\ msgs' = IF value = Malformed THEN msgs ELSE msgs + 1
    /\ graph_start_time' = IF graph_start_time = None THEN now ELSE graph_start_time
    /\ IF value = Malformed
       THEN /\ UNCHANGED <<node_values, node_is_master, last_update_time,
                           graph_data_unified, point, pc>>
       ELSE LET is_master == (prefix = "MASTER:")
                e == Event(now, sender_ip, value, is_master)
            IN  /\ node_values' = [node_values EXCEPT ![sender_ip] = value]
                /\ node_is_master' =
                       IF is_master THEN [ip \in Nodes |-> ip = sender_ip]
                       ELSE [node_is_master EXCEPT ![sender_ip] = FALSE]
                /\ last_update_time' = [last_update_time EXCEPT ![sender_ip] = now]
                /\ graph_data_unified' = DequeAppend(graph_data_unified, e, MAX_DATA_POINTS)
                /\ IF logging_active
                   THEN /\ point' = e
                        /\ Goto("udp", "append")
                   ELSE UNCHANGED <<point, pc>>
    /\ UNCHANGED <<now, master_duration_data, logging_active, session_start_time,
                   session_data, all_masters_in_session, log_file, log_filename, dev_open, dev_fs,
                   shutdown_flag, btn_outcome, presses, srv_vars, call_vars>>

\* a listener that puts the event at the left end of the session buffer
UdpAppendLeft ==
    /\ pc["udp"] = "append"
    /\ session_data' = <<point>> \o session_data
    /\ IF ~logging_active \/ ~IsOpen(log_file)
       THEN /\ Goto("udp", "idle")
            /\ point' = NoPoint
       ELSE /\ Goto("udp", "write")
            /\ UNCHANGED point
    /\ UNCHANGED <<now, node_values, node_is_master, last_update_time, graph_data_unified,
                   master_duration_data, graph_start_time, logging_active,
                   session_start_time, all_masters_in_session, log_file, log_filename, dev_open,
                   dev_fs, shutdown_flag, btn_outcome, presses, msgs, srv_vars, call_vars>>

\* udp_listener, lines 799-805, and log_data_point, lines 461-462
UdpAppend ==
    /\ pc["udp"] = "append"
    /\ session_data' = DequeAppend(session_data, point, MAX_DATA_POINTS)
    /\ IF ~logging_active \/ ~IsOpen(log_file)
       THEN /\ Goto("udp", "idle")
            /\ point' = NoPoint
       ELSE /\ Goto("udp", "write")
            /\ UNCHANGED point
    /\ UNCHANGED <<now, node_values, node_is_master, last_update_time, graph_data_unified,
                   master_duration_data, graph_start_time, logging_active,
                   session_start_time, all_masters_in_session, log_file, log_filename, dev_open,
                   dev_fs, shutdown_flag, btn_outcome, presses, msgs, srv_vars, call_vars>>

\* log_data_point, lines 464-477: writing to a closed file raises, and the
\* exception is caught
log_data_point ==
    /\ pc["udp"] = "write"
    /\ IF IsOpen(log_file)
       THEN LET session_elapsed == IF Truthy(session_start_time)
                                   THEN now - session_start_time ELSE 0
            IN  /\ dev_fs' = WriteLines(dev_fs, log_file.name,
                       <<RowLine(now, point.ip, ip_led_map[point.ip], point.value,
                                 point.is_master, master_duration_data[point.ip],
                                 session_elapsed)>>)
                /\ all_masters_in_session' =
                       IF point.is_master THEN all_masters_in_session \cup {point.ip}
                       ELSE all_masters_in_session
       ELSE UNCHANGED <<dev_fs, all_masters_in_session>>
    /\ Goto("udp", "idle")
    /\ point' = NoPoint
    /\ UNCHANGED <<now, node_values, node_is_master, last_update_time, graph_data_unified,
                   master_duration_data, graph_start_time, logging_active,
                   session_start_time, session_data, log_file, log_filename, dev_open,
                   shutdown_flag, btn_outcome, presses, msgs, srv_vars, call_vars>>

\* ------------------------------------------------------------------------
\* The device: the web update thread
\* ------------------------------------------------------------------------
\* web_server_update_loop, line 697: update_master_duration
WebUpdate ==
    /\ pc["web"] = "idle"
    /\ ~shutdown_flag
    /\ master_duration_data' =
           IF ~logging_active \/ session_start_time = None THEN master_duration_data
           ELSE update_master_duration(session_data, session_start_time, now)
    /\ Goto("web", "send")
    /\ UNCHANGED <<now, node_values, node_is_master, last_update_time, graph_data_unified,
                   graph_start_time, logging_active, session_start_time, session_data,
                   all_masters_in_session, log_file, log_filename, dev_open, dev_fs, shutdown_flag,
                   point, btn_outcome, presses, msgs, srv_vars, call_vars>>

\* send_to_web_server, lines 625-677: the payload, as far as the server reads it
Payload ==
    [logging_active |-> logging_active,
     graph_data |-> SelectSeq(graph_data_unified,
                              LAMBDA p : p.timestamp >= now - TIME_WINDOW),
     master_durations |-> master_duration_data]

\* web_server_update_loop, line 698: the payload reaches the server
WebSendDelivered ==
    /\ pc["web"] = "send"
    /\ SrvData(Payload)
    /\ Goto("web", "idle")
    /\ UNCHANGED <<now, dev_vars, point, btn_outcome, presses, msgs, call_vars>>

\* a failed post whose exception is not caught: the web thread ends
WebSendLostEndsLoop ==
    /\ pc["web"] = "send"
    /\ Goto("web", "done")
    /\ UNCHANGED <<now, dev_vars, point, btn_outcome, presses, msgs, srv_vars, call_vars>>

\* web_server_update_loop, line 698: requests.post raises, and is ignored
WebSendLost ==
    /\ pc["web"] = "send"
    /\ Goto("web", "idle")
    /\ UNCHANGED <<now, dev_vars, point, btn_outcome, presses, msgs, srv_vars, call_vars>>

\* ------------------------------------------------------------------------
\* Steps of each thread
\* ------------------------------------------------------------------------
ButtonSteps ==
    \/ button_pressed
    \/ StartOpen
    \/ StartClear
    \/ StartReset
    \/ StopEnter("button")
    \/ StopFooter("button")
    \/ StopClose("button")
    \/ StopFlag("button")

ButtonPostsDelivered ==
    \/ StartPostDelivered
    \/ StopPostDelivered("button")

ButtonPostsLost ==
    \/ StartPostLost
    \/ StopPostLost("button")

UdpSteps ==
    \/ \E ip \in Senders, prefix \in Prefixes, value \in Payloads : UdpReceive(ip, prefix, value)
    \/ UdpAppend
    \/ log_data_point

AllIdle == \A th \in Threads : pc[th] = "idle"

\* every thread but th is between two handlers
Alone(th) == \A o \in Threads \ {th} : pc[o] \in {"idle", "done"}

\* ------------------------------------------------------------------------
\* Spec: the device and the server; each handler of the device (a button
\* press, a message, a web update) runs to its end before the next one starts;
\* no file operation fails, the process is not shut down
\* ------------------------------------------------------------------------
Next ==
    \/ Alone("none") /\ Tick
    \/ Alone("button") /\ ButtonSteps
    \/ Alone("button") /\ ButtonPostsDelivered
    \/ Alone("button") /\ ButtonPostsLost
    \/ Alone("udp") /\ UdpSteps
    \/ Alone("web") /\ WebUpdate
    \/ Alone("web") /\ WebSendDelivered
    \/ Alone("web") /\ WebSendLost

Spec == Init /\ [][Next]_vars

\* ------------------------------------------------------------------------
\* SpecThreads: the device alone, its threads interleaved statement by
\* statement; the server is not reachable (every post raises)
\* ------------------------------------------------------------------------
NextThreads ==
    \/ Tick
    \/ ButtonSteps
    \/ ButtonPostsLost
    \/ UdpSteps
    \/ WebUpdate
    \/ WebSendLost

SpecThreads == Init /\ [][NextThreads]_vars

\* ------------------------------------------------------------------------
\* SpecIO: as Spec, and open() may raise
\* ------------------------------------------------------------------------
\* a start that sets the flag before it opens the log, when open() raises
StartOpenFailsFlagFirst ==
    /\ pc["button"] = "start_open"
    /\ log_file' = [log_file EXCEPT !.closed = TRUE]
    /\ dev_open' = CloseIfOpen(log_file, dev_open)
    /\ log_filename' = now
    /\ logging_active' = TRUE
    /\ session_start_time' = now
    /\ btn_outcome' = "open_failed"
    /\ Goto("button", "idle")
    /\ UNCHANGED <<now, node_values, node_is_master, last_update_time, graph_data_unified,
                   master_duration_data, graph_start_time,
                   session_data, all_masters_in_session, dev_fs,
                   shutdown_flag, point, presses, msgs, srv_vars, call_vars>>

\* start_logging_session, lines 368-373, when open() raises: the exception
\* leaves button_pressed
StartOpenFails ==
    /\ pc["button"] = "start_open"
    /\ log_file' = [log_file EXCEPT !.closed = TRUE]
    /\ dev_open' = CloseIfOpen(log_file, dev_open)
    /\ log_filename' = now
    /\ btn_outcome' = "open_failed"
    /\ Goto("button", "idle")
    /\ UNCHANGED <<now, node_values, node_is_master, last_update_time, graph_data_unified,
                   master_duration_data, graph_start_time, logging_active,
                   session_start_time, session_data, all_masters_in_session, dev_fs,
                   shutdown_flag, point, presses, msgs, srv_vars, call_vars>>

\* start_logging_session, lines 400-403, when the server cannot open its log
StartPostServerOpenFails ==
    /\ pc["button"] = "start_post"
    /\ SrvStartOpenFails
    /\ btn_outcome' = "started"
    /\ Goto("button", "idle")
    /\ UNCHANGED <<now, dev_vars, point, presses, msgs, call_vars>>

NextIO ==
    \/ Next
    \/ Alone("button") /\ StartOpenFails
    \/ Alone("button") /\ StartPostServerOpenFails

SpecIO == Init /\ [][NextIO]_vars

\* ------------------------------------------------------------------------
\* SpecRowIO: as Spec, and the write of a row may raise, on the device and on
\* the server
\* ------------------------------------------------------------------------
\* a failed write that ends the session: the flag is reset and the log closed
LogWriteFailsStops ==
    /\ pc["udp"] = "write"
    /\ IsOpen(log_file)
    /\ logging_active' = FALSE
    /\ log_file' = [log_file EXCEPT !.closed = TRUE]
    /\ dev_open' = CloseIfOpen(log_file, dev_open)
    /\ Goto("udp", "idle")
    /\ point' = NoPoint
    /\ UNCHANGED <<now, node_values, node_is_master, last_update_time, graph_data_unified,
                   master_duration_data, graph_start_time, session_start_time,
                   session_data, all_masters_in_session, log_filename, dev_fs,
                   shutdown_flag, btn_outcome, presses, msgs, srv_vars, call_vars>>

\* log_data_point, lines 464-477, when log_file.write raises: the exception
\* is caught at 476, after nothing was written and before the master is noted
LogWriteFails ==
    /\ pc["udp"] = "write"
    /\ IsOpen(log_file)
    /\ Goto("udp", "idle")
    /\ point' = NoPoint
    /\ UNCHANGED <<now, dev_vars, btn_outcome, presses, msgs, srv_vars, call_vars>>

\* receive_data, lines 1130-1151, when every writerow of log_data_point_to_file
\* raises: the points are in the buffer (147-151) and no row is written
SrvDataWriteFails(payload) ==
    /\ serving
    /\ UNCHANGED <<srv_open, serving>>
    /\ latest_logging_active' = payload.logging_active
    /\ payload.logging_active /\ IsOpen(current_log_file)
    /\ LET st == SrvLogPoints(payload.graph_data, Len(payload.graph_data))
       IN  /\ st.rows # <<>>
           /\ session_data_buffer' = st.buf
           /\ srv_all_masters_in_session' = st.masters
    /\ UNCHANGED <<srv_fs, current_log_file, srv_session_start_time, srv_status>>

\* web_server_update_loop, line 698: the payload reaches the server, which
\* cannot write its rows
WebSendDeliveredWriteFails ==
    /\ pc["web"] = "send"
    /\ SrvDataWriteFails(Payload)
    /\ Goto("web", "idle")
    /\ UNCHANGED <<now, dev_vars, point, btn_outcome, presses, msgs, call_vars>>

NextRowIO ==
    \/ Next
    \/ Alone("udp") /\ LogWriteFails
    \/ Alone("web") /\ WebSendDeliveredWriteFails

SpecRowIO == Init /\ [][NextRowIO]_vars

\* ------------------------------------------------------------------------
\* SpecRestart: as Spec, from the state the device and the server are in
\* after a first session: started at StartOfTime, one master message of node
\* 1 in that second, a payload published and the session stopped a second
\* later.  The presses and messages are counted from there, and the clock
\* runs one second further.
\* ------------------------------------------------------------------------
FirstEvent == Event(StartOfTime, 1, 512, TRUE)

FirstLog(session_elapsed) ==
    <<StartedLine(StartOfTime), HeaderLine,
      RowLine(StartOfTime, 1, ip_led_map[1], 512, TRUE, 0, session_elapsed),
      BlankLine, EndedLine(StartOfTime + 1), TotalLine(1),
      BlankLine, SummaryTitleLine, SummaryHeaderLine,
      SummaryLine(1, ip_led_map[1], 1)>>

InitRestart ==
    /\ now = StartOfTime + 1
    /\ node_values = [ip \in Nodes |-> IF ip = 1 THEN 512 ELSE 0]
    /\ node_is_master = [ip \in Nodes |-> ip = 1]
    /\ last_update_time = [ip \in Nodes |-> IF ip = 1 THEN StartOfTime ELSE None]
    /\ graph_data_unified = <<FirstEvent>>
    /\ master_duration_data = [ip \in Nodes |-> IF ip = 1 THEN 1 ELSE 0]
    /\ graph_start_time = StartOfTime
    /\ logging_active = FALSE
    /\ session_start_time = StartOfTime
    /\ session_data = <<FirstEvent>>
    /\ all_masters_in_session = {1}
    /\ log_file = [name |-> StartOfTime, closed |-> TRUE]
    /\ log_filename = StartOfTime
    /\ dev_fs = [name \in {StartOfTime} |-> FirstLog(0)]
    /\ dev_open = 0
    /\ shutdown_flag = FALSE
    /\ pc = [th \in Threads |-> "idle"]
    /\ point = NoPoint
    /\ btn_outcome = "stopped"
    /\ presses = 0
    /\ msgs = 0
    /\ latest_logging_active = FALSE
    /\ current_log_file = NoFile
    /\ session_data_buffer = <<FirstEvent>>
    /\ srv_all_masters_in_session = {1}
    /\ srv_session_start_time = StartOfTime
    /\ srv_fs = [name \in {StartOfTime} |-> FirstLog(1)]
    /\ srv_status = 200
    /\ srv_open = 0
    /\ serving = TRUE
    /\ InitAccIdle
    /\ InitAnIdle
    /\ InitWebIdle

\* the clock of SpecRestart
LateTick ==
    /\ now < MaxTime + 1
    /\ now' = now + 1
    /\ UNCHANGED <<dev_vars, thread_vars, srv_vars, call_vars>>

NextRestart ==
    \/ Alone("none") /\ LateTick
    \/ Alone("button") /\ ButtonSteps
    \/ Alone("button") /\ ButtonPostsDelivered
    \/ Alone("button") /\ ButtonPostsLost
    \/ Alone("udp") /\ UdpSteps
    \/ Alone("web") /\ WebUpdate
    \/ Alone("web") /\ WebSendDelivered
    \/ Alone("web") /\ WebSendLost

SpecRestart == InitRestart /\ [][NextRestart]_vars

\* ------------------------------------------------------------------------
\* SpecShutdown: the button thread and the main thread, which runs
\* shutdown_handler, interleaved statement by statement, and the UDP listener,
\* which handles a message between two of their handlers; the clock advances
\* between two handlers; the process ends when shutdown_handler returns
\* ------------------------------------------------------------------------
\* shutdown_handler, lines 905-906
ShutdownSet ==
    /\ pc["main"] = "idle"
    /\ shutdown_flag' = TRUE
    /\ Goto("main", "shutdown_check")
    /\ UNCHANGED <<now, node_values, node_is_master, last_update_time, graph_data_unified,
                   master_duration_data, graph_start_time, logging_active,
                   session_start_time, session_data, all_masters_in_session,
                   log_file, log_filename, dev_open, dev_fs,
                   point, btn_outcome, presses, msgs, srv_vars, call_vars>>

\* shutdown_handler, lines 908-909
ShutdownCheck ==
    /\ pc["main"] = "shutdown_check"
    /\ Goto("main", IF logging_active THEN "stop_enter" ELSE "cleanup")
    /\ UNCHANGED <<now, dev_vars, point, btn_outcome, presses, msgs, srv_vars, call_vars>>

\* shutdown_handler, lines 911-928: the LEDs, the sockets and the button are
\* released, and the process ends
ShutdownCleanup ==
    /\ pc["main"] = "cleanup"
    /\ Goto("main", "done")
    /\ UNCHANGED <<now, dev_vars, point, btn_outcome, presses, msgs, srv_vars, call_vars>>

MainSteps ==
    \/ ShutdownSet
    \/ ShutdownCheck
    \/ ShutdownCleanup
    \/ StopEnter("main")
    \/ StopFooter("main")
    \/ StopClose("main")
    \/ StopFlag("main")

Running == pc["main"] # "done"

NextShutdown ==
    \/ Running /\ Alone("none") /\ Tick
    \/ Running /\ ButtonSteps
    \/ Running /\ ButtonPostsDelivered
    \/ Running /\ ButtonPostsLost
    \/ Running /\ Alone("udp") /\ UdpSteps
    \/ MainSteps
    \/ StopPostDelivered("main")
    \/ StopPostLost("main")

SpecShutdown == Init /\ [][NextShutdown]_vars

\* ------------------------------------------------------------------------
\* SpecExit: as SpecShutdown, and the server may be interrupted as well
\* ------------------------------------------------------------------------
\* __main__ of raspi_server_code.py, lines 1361-1372: KeyboardInterrupt
ServerShutdown ==
    /\ serving
    /\ serving' = FALSE
    /\ srv_open' = CloseIfOpen(current_log_file, srv_open)
    /\ IF IsOpen(current_log_file)
       THEN /\ srv_fs' = WriteLines(srv_fs, current_log_file.name, SrvFooter)
            /\ current_log_file' = NoFile
       ELSE UNCHANGED <<srv_fs, current_log_file>>
    /\ UNCHANGED <<latest_logging_active, session_data_buffer, srv_all_masters_in_session,
                   srv_session_start_time, srv_status>>
    /\ UNCHANGED <<now, dev_vars, thread_vars, call_vars>>

NextExit ==
    \/ NextShutdown
    \/ ServerShutdown

SpecExit == Init /\ [][NextExit]_vars

\* ------------------------------------------------------------------------
\* SpecServer: the server alone; any client may post to /api/data
\* ------------------------------------------------------------------------
\* receive_data, lines 1108-1116: a request with button_action 'start'
ReceiveStart ==
    /\ requests < MaxRequests
    /\ requests' = requests + 1
    /\ SrvStart
    /\ UNCHANGED <<now, dev_vars, thread_vars, acc_vars, an_vars, web_vars>>

\* receive_data, lines 1118-1122: a request with button_action 'stop'
ReceiveStop ==
    /\ requests < MaxRequests
    /\ requests' = requests + 1
    /\ SrvStop
    /\ UNCHANGED <<now, dev_vars, thread_vars, acc_vars, an_vars, web_vars>>

\* receive_data, lines 1129-1151: a regular update that carries one point
ReceiveData(ip, is_master, active) ==
    /\ requests < MaxRequests
    /\ requests' = requests + 1
    /\ SrvData([logging_active |-> active,
                graph_data |-> <<Event(now, ip, 512, is_master)>>])
    /\ UNCHANGED <<now, dev_vars, thread_vars, acc_vars, an_vars, web_vars>>

NextServer ==
    \/ Tick
    \/ ReceiveStart
    \/ ReceiveStop
    \/ \E ip \in Senders, is_master \in BOOLEAN, active \in BOOLEAN :
           ReceiveData(ip, is_master, active)

SpecServer == Init /\ [][NextServer]_vars

\* ------------------------------------------------------------------------
\* SpecSessions: the button thread of the device and the server, which other
\* clients may post to as well; no node sends a message
\* ------------------------------------------------------------------------
NextSessions ==
    \/ Tick
    \/ ButtonSteps
    \/ ButtonPostsDelivered
    \/ ButtonPostsLost
    \/ ReceiveStart
    \/ ReceiveStop
    \/ \E ip \in Senders, is_master \in BOOLEAN, active \in BOOLEAN :
           ReceiveData(ip, is_master, active)

SpecSessions == Init /\ [][NextSessions]_vars

\* ------------------------------------------------------------------------
\* SpecQuery: the server alone, as SpecServer, and any client may ask for the
\* analysis of a log of webserver_logs, by the name of a second
\* ------------------------------------------------------------------------
\* the file at webserver_logs/<name>
LocalFile(name) ==
    IF name \in DOMAIN srv_fs
    THEN [exists |-> TRUE, readable |-> TRUE, lines |-> srv_fs[name]]
    ELSE MissingFile

\* an analysis that measures the duration of the log up to the time of the
\* request
AnalyzeLocalUntilNow(name) ==
    /\ serving
    /\ an_file' = LocalFile(name)
    /\ an_out' = LET reply == analyze_log_endpoint(LocalFile(name))
                 IN  IF reply.status # 200 THEN reply
                     ELSE [reply EXCEPT !.analysis.duration =
                              now - FromIsoFormat(reply.analysis.start_time)]
    /\ UNCHANGED <<now, dev_vars, thread_vars, srv_vars, acc_vars, requests, web_vars>>

\* analyze_log_endpoint('local', name)
AnalyzeLocal(name) ==
    /\ serving
    /\ an_file' = LocalFile(name)
    /\ an_out' = analyze_log_endpoint(LocalFile(name))
    /\ UNCHANGED <<now, dev_vars, thread_vars, srv_vars, acc_vars, requests, web_vars>>

NextQuery ==
    \/ NextServer
    \/ \E name \in StartOfTime..MaxTime : AnalyzeLocal(name)

SpecQuery == Init /\ [][NextQuery]_vars

\* ------------------------------------------------------------------------
\* SpecEndpoints: the server alone, as SpecServer, and any client may ask for
\* the analysis or the download of a file.  A file name is a prefix, the
\* second in its middle and a suffix; the logs are the only files of the two
\* directories, and the directory of the device holds the logs of the device.
\* rpi_log_files_directory is None or the directory the last payload named:
\* a request meets either.
\* ------------------------------------------------------------------------
FileNames == [prefix : {"swarm_log_", "notes_"}, stem : StartOfTime..MaxTime,
              suffix : {".csv", ".txt"}]

Sources == {"local", "rpi", "other"}

\* a check of the prefix alone
ValidNameByPrefix(filename) == filename.prefix = "swarm_log_"

\* lines 1234, 1265, 1284: startswith('swarm_log_') and endswith('.csv')
ValidName(filename) == filename.prefix = "swarm_log_" /\ filename.suffix = ".csv"

\* no call of open()
NotOpened == [opened |-> FALSE]

\* the file at os.path.join(directory, filename)
DirFile(fs, filename) ==
    IF filename.prefix = "swarm_log_" /\ filename.suffix = ".csv"
           /\ filename.stem \in DOMAIN fs
    THEN [exists |-> TRUE, readable |-> TRUE, lines |-> fs[filename.stem]]
    ELSE MissingFile

Reply(status, error, analysis, body, opened) ==
    [status |-> status, error |-> error, analysis |-> analysis, body |-> body,
     opened |-> opened]

\* analyze_log_endpoint, lines 1246-1254
AnalyzePath(f) ==
    LET r == analyze_log_endpoint(f)
    IN  Reply(r.status, r.error, r.analysis, <<>>, IF f.exists THEN f ELSE NotOpened)

\* analyze_log_endpoint, lines 1229-1258
AnalyzeReply(source, filename, rpi_dir_known) ==
    IF ~ValidName(filename)
    THEN Reply(400, "Invalid filename", NoAnalysis, <<>>, NotOpened)
    ELSE IF source = "local" THEN AnalyzePath(DirFile(srv_fs, filename))
    ELSE IF source = "rpi"
    THEN IF ~rpi_dir_known
         THEN Reply(404, "RPi directory not available", NoAnalysis, <<>>, NotOpened)
         ELSE AnalyzePath(DirFile(dev_fs, filename))
    ELSE Reply(400, "Invalid source", NoAnalysis, <<>>, NotOpened)

\* download_local_log and download_rpi_log, from os.path.exists on: lines
\* 1270-1273 and 1292-1295
DownloadPath(f) ==
    IF ~f.exists THEN Reply(404, "File not found", NoAnalysis, <<>>, NotOpened)
    ELSE Reply(200, "", NoAnalysis, f.lines, f)

\* download_local_log, lines 1260-1277, and download_rpi_log, lines 1279-1299
DownloadReply(source, filename, rpi_dir_known) ==
    IF ~ValidName(filename)
    THEN Reply(400, "Invalid filename", NoAnalysis, <<>>, NotOpened)
    ELSE IF source = "local" THEN DownloadPath(DirFile(srv_fs, filename))
    ELSE IF ~rpi_dir_known
    THEN Reply(404, "RPi directory not available", NoAnalysis, <<>>, NotOpened)
    ELSE DownloadPath(DirFile(dev_fs, filename))

\* a request of a client and its reply: an_out is the reply with the request
\* it answers, an_file the file that was opened for it
Answer(endpoint, source, filename, rpi_dir_known, r) ==
    /\ serving
    /\ an_out' = [request |-> [endpoint |-> endpoint, source |-> source,
                               filename |-> filename, rpi_dir_known |-> rpi_dir_known],
                  status |-> r.status, error |-> r.error, analysis |-> r.analysis,
                  body |-> r.body]
    /\ an_file' = r.opened
    /\ UNCHANGED <<now, dev_vars, thread_vars, srv_vars, acc_vars, requests, web_vars>>

\* GET /api/logs/analyze/<source>/<filename>
AnalyzeRequest(source, filename, rpi_dir_known) ==
    Answer("analyze", source, filename, rpi_dir_known,
           AnalyzeReply(source, filename, rpi_dir_known))

\* GET /api/logs/local/<filename> and GET /api/logs/rpi/<filename>
DownloadRequest(source, filename, rpi_dir_known) ==
    Answer("download", source, filename, rpi_dir_known,
           DownloadReply(source, filename, rpi_dir_known))

NextEndpoints ==
    \/ NextServer
    \/ \E source \in Sources, filename \in FileNames, rpi_dir_known \in BOOLEAN :
           (rpi_dir_known => source = "rpi")
               /\ AnalyzeRequest(source, filename, rpi_dir_known)
    \/ \E source \in {"local", "rpi"}, filename \in FileNames, rpi_dir_known \in BOOLEAN :
           (rpi_dir_known => source = "rpi")
               /\ DownloadRequest(source, filename, rpi_dir_known)

SpecEndpoints == Init /\ [][NextEndpoints]_vars

\* ------------------------------------------------------------------------
\* SpecMirror: the device, its threads interleaved statement by statement, and
\* the server; every start and stop notification of the device reaches the
\* server, which can open its log; a payload of the web thread may be lost
\* ------------------------------------------------------------------------
NextMirror ==
    \/ Tick
    \/ ButtonSteps
    \/ ButtonPostsDelivered
    \/ UdpSteps
    \/ WebUpdate
    \/ WebSendDelivered
    \/ WebSendLost

SpecMirror == Init /\ [][NextMirror]_vars

\* ------------------------------------------------------------------------
\* SpecPublish: the device, not recording: the UDP listener handles a message
\* between any two statements of send_to_web_server, which takes no lock
\* ------------------------------------------------------------------------
\* send_to_web_server, lines 640-648: the first node of ip_led_map (.35, .34,
\* .165) whose flag is set, or None
FirstMaster ==
    IF \A ip \in Nodes : ~node_is_master[ip] THEN None
    ELSE CHOOSE ip \in Nodes :
             node_is_master[ip] /\ \A o \in Nodes : node_is_master[o] => o <= ip

\* send_to_web_server, lines 623-648: current_master is computed
WebReadMaster ==
    /\ pc["web"] = "idle"
    /\ ~shutdown_flag
    /\ current_master' = FirstMaster
    /\ Goto("web", "nodes")
    /\ UNCHANGED <<now, dev_vars, point, btn_outcome, presses, msgs, srv_vars,
                   acc_vars, an_vars, requests>>

\* send_to_web_server, lines 653-677: the payload is built, with the node map
\* read now
WebReadNodes ==
    /\ pc["web"] = "nodes"
    /\ Goto("web", "send")
    /\ UNCHANGED <<now, dev_vars, point, btn_outcome, presses, msgs, srv_vars, call_vars>>

\* the payload built by WebReadNodes, as far as the node flags go
NodesPayload ==
    [current_master |-> current_master,
     nodes |-> [ip \in Nodes |-> [value |-> node_values[ip],
                                  is_master |-> node_is_master[ip]]]]

NextPublish ==
    \/ Tick
    \/ \E ip \in Senders, prefix \in Prefixes, value \in Payloads : UdpReceive(ip, prefix, value)
    \/ WebReadMaster
    \/ WebReadNodes
    \/ WebSendLost

SpecPublish == Init /\ [][NextPublish]_vars

\* ------------------------------------------------------------------------
\* SpecFlags: the listener and the web thread of the device, the 'MASTER:'
\* branch of the listener statement by statement
\* ------------------------------------------------------------------------
\* udp_listener, lines 756-777: a well-formed 'MASTER:' message is received,
\* and the flag of its sender is set
UdpMasterFlag(sender_ip, value) ==
    /\ pc["udp"] = "idle"
    /\ ~shutdown_flag
    /\ value # Malformed
    /\ msgs < MaxMsgs /\ last_update_time[sender_ip] # now
    /\ msgs' = msgs + 1
    /\ graph_start_time' = IF graph_start_time = None THEN now ELSE graph_start_time
    /\ node_values' = [node_values EXCEPT ![sender_ip] = value]
    /\ node_is_master' = [node_is_master EXCEPT ![sender_ip] = TRUE]
    /\ last_update_time' = [last_update_time EXCEPT ![sender_ip] = now]
    /\ point' = Event(now, sender_ip, value, TRUE)
    /\ Goto("udp", "demote")
    /\ UNCHANGED <<now, graph_data_unified, master_duration_data, logging_active,
                   session_start_time, session_data, all_masters_in_session, log_file,
                   log_filename, dev_open, dev_fs, shutdown_flag, btn_outcome, presses,
                   srv_vars, call_vars>>

\* udp_listener, lines 779-798: the flags of the other nodes are cleared and
\* the event is put into the live buffer
UdpMasterDemote ==
    /\ pc["udp"] = "demote"
    /\ node_is_master' = [ip \in Nodes |-> IF ip # point.ip THEN FALSE
                                            ELSE node_is_master[ip]]
    /\ graph_data_unified' = DequeAppend(graph_data_unified, point, MAX_DATA_POINTS)
    /\ IF logging_active
       THEN /\ Goto("udp", "append")
            /\ UNCHANGED point
       ELSE /\ Goto("udp", "idle")
            /\ point' = NoPoint
    /\ UNCHANGED <<now, node_values, last_update_time, master_duration_data,
                   graph_start_time, logging_active, session_start_time, session_data,
                   all_masters_in_session, log_file, log_filename, dev_open, dev_fs,
                   shutdown_flag, btn_outcome, presses, msgs, srv_vars, call_vars>>

NextFlags ==
    \/ Tick
    \/ \E ip \in Senders, value \in Payloads : UdpMasterFlag(ip, value)
    \/ UdpMasterDemote
    \/ \E ip \in Senders, prefix \in Prefixes, value \in Payloads :
           (prefix # "MASTER:" \/ value = Malformed) /\ UdpReceive(ip, prefix, value)
    \/ WebReadMaster
    \/ WebReadNodes
    \/ WebSendLost

SpecFlags == Init /\ [][NextFlags]_vars

\* ------------------------------------------------------------------------
\* SpecBurst: a long session of the device.  It starts where the device is
\* after a press at StartOfTime (the post to the server lost) and
\* MAX_DATA_POINTS - 1 master messages of node 1, each handled to its end
\* within that second; at most MaxBurst more messages are then handled, each to
\* its end
\* ------------------------------------------------------------------------
LongSession == [i \in 1..(MAX_DATA_POINTS - 1) |-> Event(StartOfTime, 1, 512, TRUE)]

InitBurst ==
    /\ now = StartOfTime
    /\ node_values = [ip \in Nodes |-> IF ip = 1 THEN 512 ELSE 0]
    /\ node_is_master = [ip \in Nodes |-> ip = 1]
    /\ last_update_time = [ip \in Nodes |-> IF ip = 1 THEN StartOfTime ELSE None]
    /\ graph_data_unified = LongSession
    /\ master_duration_data = ZeroDurations
    /\ graph_start_time = StartOfTime
    /\ logging_active = TRUE
    /\ session_start_time = StartOfTime
    /\ session_data = LongSession
    /\ all_masters_in_session = {1}
    /\ log_file = [name |-> StartOfTime, closed |-> FALSE]
    /\ log_filename = StartOfTime
    /\ dev_fs = [name \in {StartOfTime} |->
                    <<StartedLine(StartOfTime), HeaderLine>>
                    \o [i \in 1..(MAX_DATA_POINTS - 1) |->
                           RowLine(StartOfTime, 1, ip_led_map[1], 512, TRUE, 0, 0)]]
    /\ dev_open = 1
    /\ shutdown_flag = FALSE
    /\ pc = [th \in Threads |-> "idle"]
    /\ point = NoPoint
    /\ btn_outcome = "started"
    /\ presses = 1
    /\ msgs = MAX_DATA_POINTS - 1
    /\ InitServer
    /\ InitAccIdle
    /\ InitAnIdle
    /\ InitWebIdle

\* udp_listener, lines 756-829, with log_data_point: one well-formed message
\* handled to its end while the device records
UdpHandle(sender_ip, prefix) ==
    /\ AllIdle
    /\ ~shutdown_flag
    /\ logging_active /\ IsOpen(log_file)
    /\ msgs < MAX_DATA_POINTS - 1 + MaxBurst
    /\ msgs' = msgs + 1
    /\ LET is_master == (prefix = "MASTER:")
           e == Event(now, sender_ip, 512, is_master)
           session_elapsed == IF Truthy(session_start_time)
                              THEN now - session_start_time ELSE 0
       IN  /\ graph_start_time' = IF graph_start_time = None THEN now ELSE graph_start_time
           /\ node_values' = [node_values EXCEPT ![sender_ip] = 512]
           /\ node_is_master' =
                  IF is_master THEN [ip \in Nodes |-> ip = sender_ip]
                  ELSE [node_is_master EXCEPT ![sender_ip] = FALSE]
           /\ last_update_time' = [last_update_time EXCEPT ![sender_ip] = now]
           /\ graph_data_unified' = DequeAppend(graph_data_unified, e, MAX_DATA_POINTS)
           /\ session_data' = DequeAppend(session_data, e, MAX_DATA_POINTS)
           /\ dev_fs' = WriteLines(dev_fs, log_file.name,
                      <<RowLine(now, sender_ip, ip_led_map[sender_ip], 512, is_master,
                                master_duration_data[sender_ip], session_elapsed)>>)
           /\ all_masters_in_session' =
                  IF is_master THEN all_masters_in_session \cup {sender_ip}
                  ELSE all_masters_in_session
    /\ UNCHANGED <<now, master_duration_data, logging_active, session_start_time,
                   log_file, log_filename, dev_open, shutdown_flag,
                   pc, point, btn_outcome, presses, srv_vars, call_vars>>

NextBurst ==
    \E ip \in Senders, prefix \in {"MASTER:", "SENSOR:"} : UdpHandle(ip, prefix)

SpecBurst == InitBurst /\ [][NextBurst]_vars

\* ------------------------------------------------------------------------
\* SpecRing: the long session of SpecBurst, with a clock that advances by
\* TIME_WINDOW seconds in which nothing else happens, and the cleanup thread
\* ------------------------------------------------------------------------
\* deque.popleft() while the head is older than cutoff_time
DropOlder(q, cutoff_time) ==
    LET first == CHOOSE i \in 1..(Len(q) + 1) :
                     /\ i <= Len(q) => q[i].timestamp >= cutoff_time
                     /\ \A j \in 1..(i - 1) : q[j].timestamp < cutoff_time
    IN  SubSeq(q, first, Len(q))

\* a pass that removes one old event at most
cleanup_old_data_once ==
    /\ AllIdle
    /\ ~shutdown_flag
    /\ graph_start_time # None
    /\ graph_data_unified' =
           IF graph_data_unified # <<>>
              /\ graph_data_unified[1].timestamp < now - TIME_WINDOW
           THEN Tail(graph_data_unified) ELSE graph_data_unified
    /\ UNCHANGED <<now, node_values, node_is_master, last_update_time,
                   master_duration_data, graph_start_time, logging_active,
                   session_start_time, session_data, all_masters_in_session,
                   log_file, log_filename, dev_open, dev_fs, shutdown_flag,
                   thread_vars, srv_vars, call_vars>>

\* cleanup_loop, line 854: one pass of cleanup_old_data, lines 505-516
cleanup_old_data ==
    /\ AllIdle
    /\ ~shutdown_flag
    /\ graph_start_time # None
    /\ graph_data_unified' = DropOlder(graph_data_unified, now - TIME_WINDOW)
    /\ UNCHANGED <<now, node_values, node_is_master, last_update_time,
                   master_duration_data, graph_start_time, logging_active,
                   session_start_time, session_data, all_masters_in_session,
                   log_file, log_filename, dev_open, dev_fs, shutdown_flag,
                   thread_vars, srv_vars, call_vars>>

\* TIME_WINDOW seconds pass
ElapseWindow ==
    /\ now <= MaxTime * TIME_WINDOW
    /\ now' = now + TIME_WINDOW
    /\ UNCHANGED <<dev_vars, thread_vars, srv_vars, call_vars>>

NextRing ==
    \/ NextBurst
    \/ ElapseWindow
    \/ cleanup_old_data

SpecRing == InitBurst /\ [][NextRing]_vars

\* ------------------------------------------------------------------------
\* SpecOrder: the threads of the device that write the buffers: the button
\* thread and the UDP listener, interleaved statement by statement, and the
\* cleanup thread; the clock may also advance by TIME_WINDOW seconds; the
\* server is not reachable
\* ------------------------------------------------------------------------
NextOrder ==
    \/ Tick
    \/ ButtonSteps
    \/ ButtonPostsLost
    \/ UdpSteps
    \/ ElapseWindow
    \/ cleanup_old_data

SpecOrder == Init /\ [][NextOrder]_vars

\* ------------------------------------------------------------------------
\* SpecAcc: the accumulators called directly, on every time-ordered sequence
\* of at most MaxAccLen events of two nodes, with a window that starts at or
\* after the first event, and a query time at or after the last event
\* ------------------------------------------------------------------------
AccGaps == {0, 3, 4, 5}

AccCutoffs == {0, 5}

AccNodes == {1, 2}

InitAcc ==
    /\ now = StartOfTime
    /\ InitDevice
    /\ InitThreads
    /\ InitServer
    /\ acc_events = <<>>
    /\ acc_cutoff \in AccCutoffs
    /\ acc_now = 0
    /\ acc_out = AccResult(<<>>, acc_cutoff, 0)
    /\ InitAnIdle
    /\ InitWebIdle
    /\ requests = 0

\* one more event, gap seconds after the last one, then a query query_gap
\* seconds after it
AccObserve(ip, is_master, gap, query_gap) ==
    /\ Len(acc_events) < MaxAccLen
    /\ LET last == IF acc_events = <<>> THEN 0
                   ELSE acc_events[Len(acc_events)].timestamp
           events == Append(acc_events, Event(last + gap, ip, 512, is_master))
       IN  /\ acc_events' = events
           /\ acc_now' = last + gap + query_gap
           /\ acc_out' = AccResult(events, acc_cutoff, last + gap + query_gap)
    /\ UNCHANGED <<now, dev_vars, thread_vars, srv_vars, acc_cutoff, an_vars, requests,
                   web_vars>>

NextAcc ==
    \E ip \in AccNodes, is_master \in BOOLEAN, gap \in AccGaps, query_gap \in AccGaps :
        AccObserve(ip, is_master, gap, query_gap)

SpecAcc == InitAcc /\ [][NextAcc]_vars

\* ------------------------------------------------------------------------
\* SpecMatrix: as SpecAcc, with gaps between the events and to the query of
\* up to the window of the display
\* ------------------------------------------------------------------------
MatrixGaps == {0, 4, 15, GRAPH_TIME_WINDOW}

NextMatrix ==
    \E ip \in AccNodes, is_master \in BOOLEAN, gap \in MatrixGaps, query_gap \in MatrixGaps :
        AccObserve(ip, is_master, gap, query_gap)

SpecMatrix == InitAcc /\ [][NextMatrix]_vars

\* ------------------------------------------------------------------------
\* SpecAnalyze: a log of at most MaxLogLen lines is written line by line, and
\* /api/logs/analyze is requested after each line; the path may also name no
\* file, or a file that cannot be opened
\* ------------------------------------------------------------------------
AnTimes == {1, 2}

\* rows that parse
GoodRows ==
    {RowLine(t, ip, ip_led_map[ip], 512, m, 0, 0) :
        t \in AnTimes, ip \in AccNodes, m \in BOOLEAN}

\* rows that do not: fewer than 5 fields, a value int() rejects, a timestamp
\* fromisoformat() rejects
BadRows ==
    {[RowLine(1, 1, "GREEN", 512, TRUE, 0, 0) EXCEPT !.nfields = 4],
     [RowLine(1, 1, "GREEN", 512, TRUE, 0, 0) EXCEPT !.value = Malformed],
     [RowLine(1, 1, "GREEN", 512, TRUE, 0, 0) EXCEPT !.timestamp = Malformed]}

LogLines == GoodRows \cup BadRows \cup {HeaderLine, BlankLine, StartedLine(1)}

InitAnalyze ==
    /\ now = StartOfTime
    /\ InitDevice
    /\ InitThreads
    /\ InitServer
    /\ InitAccIdle
    /\ InitWebIdle
    /\ an_file \in {MissingFile, UnreadableFile, EmptyFile}
    /\ an_out = analyze_log_endpoint(an_file)

\* one more line in the file, then a request for its analysis
AnAppend(line) ==
    /\ an_file.exists /\ an_file.readable
    /\ Len(an_file.lines) < MaxLogLen
    /\ an_file' = [an_file EXCEPT !.lines = Append(@, line)]
    /\ an_out' = analyze_log_endpoint(an_file')
    /\ UNCHANGED <<now, dev_vars, thread_vars, srv_vars, acc_vars, requests, web_vars>>

NextAnalyze == \E line \in LogLines : AnAppend(line)

SpecAnalyze == InitAnalyze /\ [][NextAnalyze]_vars

\* ------------------------------------------------------------------------
\* Section 4.1 of the specification, stated over the master events of the
\* window: a pair of consecutive master events of one node is credited to
\* that node, and the last master event is credited up to the query time
\* ------------------------------------------------------------------------
WindowMasters(events, window_start) ==
    SelectSeq(events, LAMBDA e : e.is_master /\ e.timestamp >= window_start)

RECURSIVE PairCredit(_, _, _)
PairCredit(m, ip, i) ==
    IF i < 1 THEN 0
    ELSE PairCredit(m, ip, i - 1)
         + (IF m[i].ip = ip /\ m[i + 1].ip = ip
            THEN m[i + 1].timestamp - m[i].timestamp ELSE 0)

OpenCredit(m, ip, current_time) ==
    IF m # <<>> /\ m[Len(m)].ip = ip THEN current_time - m[Len(m)].timestamp ELSE 0

Section41(events, window_start, current_time) ==
    LET m == WindowMasters(events, window_start)
    IN  [ip \in Nodes |-> PairCredit(m, ip, Len(m) - 1) + OpenCredit(m, ip, current_time)]

\* the example of section 8: (0,A,master) (5,B,master) (9,A,master), now = 12
ExampleEvents == <<Event(0, 1, 512, TRUE), Event(5, 2, 512, TRUE), Event(9, 1, 512, TRUE)>>

\* C1: for every time-ordered event sequence, window start and query time,
\* update_master_duration gives each node the sum of the gaps between
\* consecutive in-window master events of that node plus, for the node of the
\* last in-window master event, the time from that event to the query; on the
\* example of section 8 node A gets 3 and node B gets 0.
C1_DeviceAccumulatorIsSection41 ==
    /\ acc_out.device = Section41(acc_events, acc_cutoff, acc_now)
    /\ (acc_events = ExampleEvents /\ acc_cutoff = 0 /\ acc_now = 12)
           => acc_out.device[1] = 3 /\ acc_out.device[2] = 0

C1_Witness ==
    /\ acc_events = ExampleEvents
    /\ acc_cutoff = 0
    /\ acc_now = 12
    /\ acc_out.device[1] = 3

\* ------------------------------------------------------------------------
\* Reading a log
\* ------------------------------------------------------------------------
Indices(lines) == 1..Len(lines)

FooterCount(lines) == Cardinality({i \in Indices(lines) : IsEnded(lines[i])})

HasFooter(lines) == \E i \in Indices(lines) : IsEnded(lines[i])

\* the time in the last 'Session ended' line
EndedAt(lines) ==
    LET i == CHOOSE j \in Indices(lines) :
                 IsEnded(lines[j]) /\ \A k \in Indices(lines) : IsEnded(lines[k]) => k <= j
    IN  FromIsoFormat(lines[i].at)

\* the nodes of the summary lines, in the order of the lines
SummaryIps(lines) ==
    LET summary == SelectSeq(lines, IsSummary)
    IN  [i \in 1..Len(summary) |-> summary[i].ip]

Listed(lines, ip) == \E i \in Indices(lines) : IsSummary(lines[i]) /\ lines[i].ip = ip

\* the duration text of the first summary line of a node
ListedDuration(lines, ip) ==
    LET i == CHOOSE j \in Indices(lines) :
                 /\ IsSummary(lines[j]) /\ lines[j].ip = ip
                 /\ \A k \in Indices(lines) :
                        (IsSummary(lines[k]) /\ lines[k].ip = ip) => j <= k
    IN  lines[i].duration

\* the rows, as (node, value, master flag)
RowEvents(lines) ==
    LET rows == SelectSeq(lines, IsRow)
    IN  [i \in 1..Len(rows) |->
            <<rows[i].ip, rows[i].value, ParseIsMaster(rows[i].is_master)>>]

BufferEvents(buf) == [i \in 1..Len(buf) |-> <<buf[i].ip, buf[i].value, buf[i].is_master>>]

MasterIps(buf) == {buf[i].ip : i \in {j \in 1..Len(buf) : buf[j].is_master}}

AnalysisDuration(a, ip) ==
    IF a.ok /\ ip \in DOMAIN a.master_durations THEN a.master_durations[ip].duration ELSE 0

\* the device has stopped a session, and its log has the footer
DeviceStopped ==
    /\ AllIdle
    /\ ~logging_active
    /\ log_file.name \in DOMAIN dev_fs
    /\ HasFooter(dev_fs[log_file.name])

\* the server has stopped a session, and its log has the footer
ServerStopped ==
    /\ ~IsOpen(current_log_file)
    /\ srv_session_start_time \in DOMAIN srv_fs
    /\ HasFooter(srv_fs[srv_session_start_time])

\* ------------------------------------------------------------------------
\* The claims
\* ------------------------------------------------------------------------
\* C2: the durations in the footer the server writes at stop are those of
\* section 4.1 over the server's session buffer with now = the stop time:
\* a gap between two master events is credited only when both are of one node.
C2_ServerFooterIsSection41 ==
    ServerStopped =>
        LET lines == srv_fs[srv_session_start_time]
        IN  \A ip \in Nodes :
                Listed(lines, ip) =>
                    ListedDuration(lines, ip)
                        = Fmt2(Section41(session_data_buffer, 0, EndedAt(lines))[ip])

\* C3: the durations in the footer the device writes at stop are those of
\* section 4.1 over the session buffer as it is at the stop, with now = the
\* stop time.
C3_DeviceFooterIsSection41 ==
    DeviceStopped =>
        LET lines == dev_fs[log_file.name]
        IN  \A ip \in Nodes :
                Listed(lines, ip) =>
                    ListedDuration(lines, ip)
                        = Fmt2(Section41(session_data, session_start_time,
                                         EndedAt(lines))[ip])

\* C4: the durations analyze_log_file recomputes from a finished log are the
\* durations in that log's footer.
C4_AnalysisIsFooter ==
    \A name \in DOMAIN dev_fs :
        (HasFooter(dev_fs[name]) /\ ~(IsOpen(log_file) /\ log_file.name = name)) =>
            \A ip \in Nodes :
                Listed(dev_fs[name], ip) =>
                    Fmt2(AnalysisDuration(analyze_log_file(dev_fs[name]), ip))
                        = ListedDuration(dev_fs[name], ip)

\* C5: a log that is no longer the open log of its recorder has exactly one
\* footer: a start while RECORDING writes the footer of the prior session
\* before it opens the new log.
C5_OneFooterPerClosedLog ==
    /\ \A name \in DOMAIN srv_fs :
           ~(IsOpen(current_log_file) /\ current_log_file.name = name)
               => FooterCount(srv_fs[name]) = 1
    /\ \A name \in DOMAIN dev_fs :
           (AllIdle /\ ~(IsOpen(log_file) /\ log_file.name = name))
               => FooterCount(dev_fs[name]) = 1

\* C6: while the device is RECORDING, the events of the session buffer and the
\* rows of the session's log correspond one-to-one.
C6_BufferIsRows ==
    (AllIdle /\ logging_active /\ IsOpen(log_file)) =>
        RowEvents(dev_fs[log_file.name]) = BufferEvents(session_data)

\* C7: the footer written at stop lists exactly the nodes that have a master
\* event in the session buffer, each once, in ascending order.
C7_FooterListsMasters ==
    [][\A th \in Threads :
          (pc[th] = "stop_footer" /\ pc'[th] = "stop_close") =>
              SummaryIps(SubSeq(dev_fs'[log_file.name],
                                Len(dev_fs[log_file.name]) + 1,
                                Len(dev_fs'[log_file.name])))
                  = SortedSeq(MasterIps(session_data))]_vars

\* the variables of the device's recorder, and of the server's
DeviceRecorder ==
    <<logging_active, session_start_time, session_data, all_masters_in_session,
      master_duration_data, log_file, log_filename, dev_open, dev_fs>>

ServerRecorder ==
    <<current_log_file, session_data_buffer, srv_all_masters_in_session,
      srv_session_start_time, srv_fs>>

\* C8: a stop received while the recorder is IDLE changes nothing: the call of
\* stop_logging_session that finds the flag reset returns at once, and a 'stop'
\* action that finds no open log on the server leaves it so; no file is
\* created or written, and the buffer, the master set, the durations and the
\* recording state are as before.
C8_StopWhileIdleIsNoOp ==
    [][/\ \A th \in Threads :
              (pc[th] = "stop_enter" /\ ~logging_active /\ pc'[th] # pc[th]) =>
                  /\ pc'[th] \in {"idle", "cleanup"}
                  /\ DeviceRecorder' = DeviceRecorder
       /\ \A th \in Threads :
              (pc[th] = "stop_post" /\ pc'[th] # pc[th] /\ ~IsOpen(current_log_file)) =>
                  ServerRecorder' = ServerRecorder]_vars

\* the server has answered a 'stop' and has never had a log
C8_Witness ==
    /\ srv_status = 200
    /\ srv_fs = <<>>
    /\ ~IsOpen(current_log_file)
    /\ \E th \in Threads : pc[th] = "stop_flag"

\* C9: when the log cannot be opened on a start, the start fails and the
\* recorder is IDLE after it: on the device the press ends with the flag not
\* set and no log open, on the server the request is answered 400 and no log is
\* open; and an IDLE recorder records nothing of the events that follow.
C9_FailedOpenLeavesIdle ==
    [][/\ (btn_outcome' = "open_failed" /\ pc'["button"] = "idle") =>
              ~logging_active' /\ ~IsOpen(log_file')
       /\ (~logging_active /\ ~logging_active') =>
              dev_fs' = dev_fs /\ session_data' = session_data
                  /\ all_masters_in_session' = all_masters_in_session
       /\ srv_status' = 400 => ~IsOpen(current_log_file')
       /\ (~IsOpen(current_log_file) /\ ~IsOpen(current_log_file')) =>
              srv_fs' = srv_fs /\ session_data_buffer' = session_data_buffer
                  /\ srv_all_masters_in_session' = srv_all_masters_in_session]_vars

\* the open has failed, and a message has been handled after it
C9_Witness ==
    /\ btn_outcome = "open_failed"
    /\ AllIdle
    /\ ~logging_active
    /\ \E ip \in Nodes : last_update_time[ip] > log_filename
    /\ dev_fs = <<>>
    /\ session_data = <<>>

\* C10: each completed button press flips the recorder of the device, when
\* the log can be opened: starting from IDLE, after n completed presses the
\* device is RECORDING exactly when n is odd.
C10_PressTogglesRecording ==
    pc["button"] = "idle" => (logging_active <=> presses % 2 = 1)

C10_Witness ==
    /\ pc["button"] = "idle"
    /\ presses = 2
    /\ btn_outcome = "stopped"
    /\ ~logging_active
    /\ HasFooter(dev_fs[log_file.name])

IsPrefix(a, b) == Len(a) <= Len(b) /\ SubSeq(b, 1, Len(a)) = a

\* C11: a session that starts gets a log name no earlier session had, so
\* a start never truncates or overwrites an earlier log: every log that
\* exists keeps its lines, on the device and on the server.
C11_StartKeepsEarlierLogs ==
    [][/\ \A name \in DOMAIN srv_fs :
              name \in DOMAIN srv_fs' /\ IsPrefix(srv_fs[name], srv_fs'[name])
       /\ \A name \in DOMAIN dev_fs :
              name \in DOMAIN dev_fs' /\ IsPrefix(dev_fs[name], dev_fs'[name])]_vars

\* C12: each recorder has at most one open log at any time: a new log is
\* opened only after the open one has been closed.
C12_AtMostOneOpenLog ==
    /\ dev_open <= 1
    /\ srv_open <= 1
    /\ dev_open = (IF IsOpen(log_file) THEN 1 ELSE 0)
    /\ srv_open = (IF IsOpen(current_log_file) THEN 1 ELSE 0)

\* the server has started a session while another one was recording, and the
\* device has opened a log
C12_Witness ==
    /\ srv_open = 1
    /\ IsOpen(current_log_file)
    /\ \E name \in DOMAIN srv_fs :
           name # current_log_file.name /\ ~HasFooter(srv_fs[name])
    /\ dev_open = 1

\* C13: while the device records, the session buffer holds every event
\* appended since the start of the session, as many as the rows written to
\* the session's log, however many events were received.
C13_BufferKeepsEveryEvent ==
    (AllIdle /\ logging_active /\ IsOpen(log_file)) =>
        /\ Len(session_data) = Len(SelectSeq(dev_fs[log_file.name], IsRow))
        /\ session_data # <<>> =>
               session_data[1].timestamp
                   = FromIsoFormat(SelectSeq(dev_fs[log_file.name], IsRow)[1].timestamp)

\* C14: a message whose payload does not parse as an integer changes no
\* node's value, master flag or last-update time, appends nothing to the live
\* buffer or to the session buffer, writes no row, and leaves the listener at
\* the head of its loop.  (Such a message is the only step that sets
\* graph_start_time and receives no well-formed message.)
C14_MalformedMessageChangesNothing ==
    [][(graph_start_time' # graph_start_time /\ msgs' = msgs) =>
           /\ node_values' = node_values
           /\ node_is_master' = node_is_master
           /\ last_update_time' = last_update_time
           /\ graph_data_unified' = graph_data_unified
           /\ session_data' = session_data
           /\ all_masters_in_session' = all_masters_in_session
           /\ dev_fs' = dev_fs
           /\ pc'["udp"] = "idle"]_vars

\* the first message of a recording device was malformed
C14_Witness ==
    /\ graph_start_time # None
    /\ msgs = 0
    /\ logging_active
    /\ AllIdle
    /\ session_data = <<>>
    /\ graph_data_unified = <<>>

\* the last line that is no comment and no blank line is before the footer
EndsWithFooter(lines) ==
    /\ HasFooter(lines)
    /\ \A i \in Indices(lines) :
           IsRow(lines[i]) => \E j \in Indices(lines) : j > i /\ IsEnded(lines[j])

\* C15: when the shutdown sequence of a process has completed, its recorder is
\* IDLE, no log is open, and the log of its last session is closed and ends
\* with a footer: the shutdown leaves no session recording or without a footer.
C15_ShutdownStopsTheSession ==
    /\ pc["main"] = "done" =>
           /\ ~logging_active
           /\ dev_open = 0
           /\ log_file.name \in DOMAIN dev_fs => EndsWithFooter(dev_fs[log_file.name])
    /\ ~serving =>
           /\ srv_open = 0
           /\ srv_session_start_time \in DOMAIN srv_fs =>
                  EndsWithFooter(srv_fs[srv_session_start_time])

\* the events at or after the window start
InWindow(events, window_start) ==
    SelectSeq(events, LAMBDA e : e.timestamp >= window_start)

\* every event is a master event of node ip
OnlyMaster(events, ip) ==
    \A i \in 1..Len(events) : events[i].is_master /\ events[i].ip = ip

\* the timestamps are readings of time.time(): positive numbers
ClockReadings(events) ==
    \A i \in 1..Len(events) : events[i].timestamp > 0

\* C16: when every event of the window is a master event of one node, the
\* accumulator credits that node now - (time of the first event of the
\* window), for one event as for a chain, and every other node zero; the
\* device's accumulator over its window, the server's over its whole buffer.
\* Timestamps are clock readings.
C16_SingleMasterGetsWholeSpan ==
    \A ip \in Nodes :
        /\ LET w == InWindow(acc_events, acc_cutoff)
           IN  (w # <<>> /\ OnlyMaster(w, ip) /\ ClockReadings(w)) =>
                   acc_out.device = [n \in Nodes |->
                                        IF n = ip THEN acc_now - w[1].timestamp ELSE 0]
        /\ (acc_events # <<>> /\ OnlyMaster(acc_events, ip) /\ ClockReadings(acc_events)) =>
               acc_out.server = [n \in Nodes |->
                                    IF n = ip THEN acc_now - acc_events[1].timestamp ELSE 0]

\* a chain of three master events of node 1 in the window, queried later
C16_Witness ==
    /\ Len(acc_events) = 3
    /\ OnlyMaster(acc_events, 1)
    /\ ClockReadings(acc_events)
    /\ acc_cutoff = 0
    /\ acc_events[3].timestamp > acc_events[1].timestamp
    /\ acc_now > acc_events[3].timestamp
    /\ acc_out.device[1] = acc_now - acc_events[1].timestamp
    /\ acc_out.device[1] = acc_out.server[1]

\* texts a log may hold in columns 6 and 7: "0.00", "7.00", and one no
\* float() accepts
ColumnTexts == {Fmt2(0), Fmt2(7), Malformed}

\* the log with columns 6 and 7 of its rows rewritten: a, b in the odd rows,
\* b, a in the even ones
Recolumn(lines, a, b) ==
    [i \in 1..Len(lines) |->
        IF lines[i].kind # "row" THEN lines[i]
        ELSE [lines[i] EXCEPT
                 !.master_duration = IF i % 2 = 1 THEN a ELSE b,
                 !.session_elapsed = IF i % 2 = 1 THEN b ELSE a]]

\* C17: the reply to an analysis request does not depend on the
\* master_duration_seconds and session_elapsed_seconds columns: two logs that
\* differ only in them get the same reply.
C17_AnalysisIgnoresDurationColumns ==
    \A a \in ColumnTexts, b \in ColumnTexts :
        analyze_log_endpoint([an_file EXCEPT !.lines = Recolumn(@, a, b)]) = an_out

\* an analysed log with a master interval, whose columns differ from the
\* rewritten ones
C17_Witness ==
    /\ an_out.status = 200
    /\ an_out.analysis.num_masters = 1
    /\ an_out.analysis.total_points >= 2
    /\ Recolumn(an_file.lines, Fmt2(7), Malformed) # an_file.lines

\* a row with fewer than five fields, a value that is no integer, or a
\* timestamp that is no ISO date
MalformedRow(l) ==
    l.kind = "row" /\ (l.nfields < 5 \/ l.value = Malformed \/ l.timestamp = Malformed)

\* the log without its comment lines, blank lines and malformed rows
WithoutSkippedLines(lines) ==
    SelectSeq(lines, LAMBDA l : l.kind \notin {"comment", "blank"} /\ ~MalformedRow(l))

\* C18: comment lines, blank lines and malformed rows are discarded and the
\* rest is analysed: the reply is the one the log gets with those lines removed.
C18_SkippedLinesChangeNothing ==
    an_out = analyze_log_endpoint(
                 [an_file EXCEPT !.lines = WithoutSkippedLines(@)])

\* an analysed log with a malformed row before a parseable one
C18_Witness ==
    /\ an_out.status = 200
    /\ \E i \in 1..Len(an_file.lines), j \in 1..Len(an_file.lines) :
           /\ i < j
           /\ MalformedRow(an_file.lines[i])
           /\ an_file.lines[i].nfields >= 5
           /\ an_file.lines[j].kind = "row" /\ ~MalformedRow(an_file.lines[j])
           /\ \E h \in 1..(i - 1) : an_file.lines[h].kind = "header"

\* a log that is there, opens, and holds the header and no data row
HeaderOnly(f) ==
    /\ f.exists /\ f.readable
    /\ \E i \in 1..Len(f.lines) : f.lines[i].kind = "header"
    /\ \A i \in 1..Len(f.lines) : f.lines[i].kind # "row"

\* C19: a log with the header and no data rows is reported with zero total
\* points, and its reply differs from the reply for a missing file and from
\* the reply for a file that cannot be read.
C19_EmptyLogReportsZeroPoints ==
    HeaderOnly(an_file) =>
        /\ an_out.status = 200
        /\ an_out.analysis.ok
        /\ an_out.analysis.total_points = 0
        /\ an_out # analyze_log_endpoint(MissingFile)
        /\ an_out # analyze_log_endpoint(UnreadableFile)

\* the indices of the parseable rows after the header
ParseableRows(lines) ==
    {i \in 1..Len(lines) :
        /\ lines[i].kind = "row" /\ ~MalformedRow(lines[i])
        /\ \E h \in 1..(i - 1) : lines[h].kind = "header"}

\* the times of those rows
RowTimes(lines) == {FromIsoFormat(lines[i].timestamp) : i \in ParseableRows(lines)}

\* C20: a log with at least one parseable row is analysed; the events of the
\* result are in non-decreasing timestamp order, total_points is the number
\* of parseable rows after the header, start_time and end_time are the least
\* and the greatest timestamp, and the duration is not negative.
C20_AnalysisOrdersAndCounts ==
    (an_file.exists /\ an_file.readable /\ ParseableRows(an_file.lines) # {}) =>
        /\ an_out.status = 200
        /\ LET r == an_out.analysis
               times == RowTimes(an_file.lines)
           IN  /\ \A i \in 1..(Len(r.data_points) - 1) :
                      r.data_points[i].timestamp <= r.data_points[i + 1].timestamp
               /\ r.total_points = Cardinality(ParseableRows(an_file.lines))
               /\ r.total_points = Len(r.data_points)
               /\ \E lo \in times : /\ \A t \in times : lo <= t
                                    /\ r.start_time = IsoFormat(lo)
               /\ \E hi \in times : /\ \A t \in times : t <= hi
                                    /\ r.end_time = IsoFormat(hi)
               /\ r.duration >= 0

\* a log whose rows are out of order: a later timestamp written first
C20_Witness ==
    /\ an_out.status = 200
    /\ \E i \in ParseableRows(an_file.lines), j \in ParseableRows(an_file.lines) :
           /\ i < j
           /\ FromIsoFormat(an_file.lines[i].timestamp)
                  > FromIsoFormat(an_file.lines[j].timestamp)
    /\ an_out.analysis.duration > 0

Publishes == pc["web"] = "send" /\ pc'["web"] = "idle"

\* C22: the duration map of a published payload is the accumulator of
\* section 4.1 over the live buffer: over the window of the last TIME_WINDOW
\* seconds when the device is not recording, over the window that starts at
\* the start of the session when it is.
C22_PublishedDurationsAreTheAccumulator ==
    [][Publishes =>
           Payload.master_durations =
               update_master_duration(
                   graph_data_unified,
                   IF logging_active THEN session_start_time ELSE now - TIME_WINDOW,
                   now)]_vars

\* the web thread builds its payload
BuildsPayload == pc["web"] = "nodes" /\ pc'["web"] = "send"

\* C23: a payload is one view of the device: its current_master is present
\* exactly when a node of its node map is flagged master, and names a node
\* that is flagged, also when a message is handled while the payload is put
\* together.
C23_PayloadIsOneView ==
    [][BuildsPayload =>
           LET p == NodesPayload
           IN  /\ p.current_master # None <=> \E ip \in Nodes : p.nodes[ip].is_master
               /\ p.current_master # None => p.nodes[p.current_master].is_master]_vars

\* C24: when every notification arrives and the server can open its log, the
\* server records exactly when the device does, whenever no start or stop of
\* the device is under way: it has an open log after a start has completed,
\* and none after a stop has.
C24_ServerMirrorsTheDevice ==
    pc["button"] = "idle" =>
        /\ IsOpen(current_log_file) <=> logging_active
        /\ btn_outcome = "started" => IsOpen(current_log_file)
        /\ btn_outcome = "stopped" => ~IsOpen(current_log_file)

\* a second press has stopped the session on both sides
C24_Witness ==
    /\ pc["button"] = "idle"
    /\ btn_outcome = "stopped"
    /\ ~logging_active
    /\ ~IsOpen(current_log_file)
    /\ \E name \in DOMAIN srv_fs : EndsWithFooter(srv_fs[name])

\* the web thread leaves send_to_web_server
EndsSend == pc["web"] = "send" /\ pc' # pc

\* C25: a payload that is not delivered changes no state of the device and is
\* not kept: the publish loop goes on, and what the server receives next is
\* the payload built from the state of the device at that time.
C25_LostPayloadIsForgotten ==
    [][EndsSend =>
           /\ pc'["web"] = "idle"
           /\ dev_vars' = dev_vars
           /\ srv_vars' # srv_vars =>
                  /\ latest_logging_active' = Payload.logging_active
                  /\ \A i \in 1..Len(session_data_buffer') :
                         i > Len(session_data_buffer) =>
                             \E j \in 1..Len(Payload.graph_data) :
                                 Payload.graph_data[j] = session_data_buffer'[i]]_vars

\* both recorders are on, the web thread has computed a positive duration
\* and gone back to its loop, and the server has received no event: the
\* payload sent after that computation was lost
C25_Witness ==
    /\ pc["web"] = "idle"
    /\ logging_active
    /\ IsOpen(current_log_file)
    /\ \E ip \in Nodes : master_duration_data[ip] > 0
    /\ session_data # <<>>
    /\ session_data_buffer = <<>>

\* the rows of a log
Rows(lines) == SelectSeq(lines, IsRow)

\* the device leaves log_data_point with the log open and no row written
DeviceRowFails ==
    /\ pc["udp"] = "write" /\ pc'["udp"] = "idle"
    /\ IsOpen(log_file)
    /\ dev_fs' = dev_fs

\* the server takes points into its buffer and writes no row
ServerRowFails ==
    /\ Len(session_data_buffer') > Len(session_data_buffer)
    /\ srv_fs' = srv_fs

\* C26: a row that cannot be written is skipped: the recorder stays RECORDING
\* with the same open log and the same session buffer, and every event
\* handled while recording, also after such a failure, is appended to the
\* session buffer and, if its write succeeds, written as the last row.
C26_RowFailureIsAbsorbed ==
    [][/\ DeviceRowFails =>
              /\ logging_active' /\ logging_active
              /\ log_file' = log_file /\ IsOpen(log_file')
              /\ session_data' = session_data
       /\ ServerRowFails =>
              /\ current_log_file' = current_log_file /\ IsOpen(current_log_file')
              /\ srv_session_start_time' = srv_session_start_time
       /\ (pc["udp"] = "append" /\ pc' # pc) =>
              /\ session_data' = DequeAppend(session_data, point, MAX_DATA_POINTS)
              /\ (logging_active /\ IsOpen(log_file)) => pc'["udp"] = "write"
       /\ (pc["udp"] = "write" /\ pc' # pc /\ ~DeviceRowFails /\ IsOpen(log_file)) =>
              LET rows == Rows(dev_fs'[log_file.name])
              IN  /\ Len(rows) = Len(Rows(dev_fs[log_file.name])) + 1
                  /\ rows[Len(rows)].ip = point.ip
                  /\ rows[Len(rows)].timestamp = IsoFormat(point.timestamp)]_vars

\* the write of the first event of a session failed and the event of a
\* later second was written: two events in the session buffer, one row
C26_Witness ==
    /\ logging_active /\ IsOpen(log_file)
    /\ pc["udp"] = "idle"
    /\ Len(session_data) = 2
    /\ session_data[1].timestamp < session_data[2].timestamp
    /\ LET rows == Rows(dev_fs[log_file.name])
       IN  /\ Len(rows) = 1
           /\ rows[1].timestamp = IsoFormat(session_data[2].timestamp)

\* no event of the buffer is older than TIME_WINDOW seconds
AllFresh(q) == \A i \in 1..Len(q) : q[i].timestamp >= now - TIME_WINDOW

\* C27: the live buffer never holds more than MAX_DATA_POINTS events, an
\* append to the full buffer drops its oldest event, and after a pruning
\* pass (one that removes events, or one that finds the oldest event recent
\* enough) the buffer holds no event older than now - TIME_WINDOW.
C27_RingBufferIsBounded ==
    [][/\ Len(graph_data_unified') <= MAX_DATA_POINTS
       /\ (msgs' # msgs /\ Len(graph_data_unified) = MAX_DATA_POINTS) =>
              /\ Len(graph_data_unified') = MAX_DATA_POINTS
              /\ SubSeq(graph_data_unified', 1, MAX_DATA_POINTS - 1)
                     = Tail(graph_data_unified)
              /\ graph_data_unified'[MAX_DATA_POINTS].timestamp = now
       /\ Len(graph_data_unified') < Len(graph_data_unified) =>
              AllFresh(graph_data_unified')
       /\ (graph_data_unified' # <<>>
              /\ graph_data_unified'[1].timestamp >= now' - TIME_WINDOW) =>
              \A i \in 1..Len(graph_data_unified') :
                  graph_data_unified'[i].timestamp >= now' - TIME_WINDOW]_vars

\* the full buffer has lost its old events in a pruning pass and kept the
\* recent ones
C27_Witness ==
    /\ now > StartOfTime + TIME_WINDOW
    /\ graph_data_unified # <<>>
    /\ Len(graph_data_unified) <= MaxBurst
    /\ AllFresh(graph_data_unified)
    /\ Len(session_data) = MAX_DATA_POINTS

\* the timestamps of a buffer never decrease from one event to the next
InTimeOrder(q) == \A i \in 1..(Len(q) - 1) : q[i].timestamp <= q[i + 1].timestamp

\* C28: the live buffer and the session buffer are in non-decreasing
\* timestamp order in every state, whatever appends, pruning passes and
\* session starts have happened.
C28_BuffersInTimeOrder ==
    /\ InTimeOrder(graph_data_unified)
    /\ InTimeOrder(session_data)

\* a session buffer with events of two different seconds, in a session that
\* was started after the live buffer was pruned
C28_Witness ==
    /\ Len(session_data) = 2
    /\ session_data[1].timestamp < session_data[2].timestamp
    /\ Len(graph_data_unified) = 2
    /\ session_start_time > StartOfTime
    /\ now > TIME_WINDOW

\* no data row follows a 'Session ended' line
RowsPrecedeFooter(lines) ==
    \A i \in Indices(lines), j \in Indices(lines) :
        (i < j /\ IsEnded(lines[i])) => ~IsRow(lines[j])

\* C29: in every log, of the device and of the server, all data rows precede
\* the footer: no row is written to a file after its 'Session ended' line,
\* however the listener and a stop are interleaved.
C29_RowsPrecedeFooter ==
    /\ \A name \in DOMAIN dev_fs : RowsPrecedeFooter(dev_fs[name])
    /\ \A name \in DOMAIN srv_fs : RowsPrecedeFooter(srv_fs[name])

\* the master_duration_seconds of the rows of node ip, in file order
RowDurations(lines, ip) ==
    LET rows == SelectSeq(lines, LAMBDA l : IsRow(l) /\ l.ip = ip)
    IN  [i \in 1..Len(rows) |-> rows[i].master_duration]

\* C30: during one session the accumulated master duration of a node never
\* decreases: from one computation of the published map to the next within
\* the session, and from one row of the node to its next row in the log.
C30_DurationsNeverDecrease ==
    [][/\ (logging_active /\ logging_active' /\ session_start_time' = session_start_time
              /\ pc["web"] = "idle" /\ pc'["web"] = "send") =>
              \A ip \in Nodes : master_duration_data'[ip] >= master_duration_data[ip]
       /\ \A name \in DOMAIN dev_fs' : \A ip \in Nodes :
              LET d == RowDurations(dev_fs'[name], ip)
              IN  \A i \in 1..(Len(d) - 1) : d[i] <= d[i + 1]
       /\ \A name \in DOMAIN srv_fs' : \A ip \in Nodes :
              LET d == RowDurations(srv_fs'[name], ip)
              IN  \A i \in 1..(Len(d) - 1) : d[i] <= d[i + 1]]_vars

\* the web thread runs update_master_duration on a recording device
Accumulates ==
    /\ pc["web"] = "idle" /\ pc'["web"] = "send"
    /\ logging_active /\ session_start_time # None

\* C31: the node the accumulator credits with the open interval from the last
\* master event to now is the node that holds the master role then: the node
\* whose master flag is set in the node state.
C31_OpenIntervalGoesToCurrentMaster ==
    [][Accumulates =>
           LET st == DeviceScan(session_data, Len(session_data), session_start_time)
           IN  (st.last_master # None /\ st.last_time # None) =>
                   /\ node_is_master[st.last_master]
                   /\ master_duration_data'[st.last_master] >= now - st.last_time]_vars

\* the master events of a sequence, in order
MasterEvents(events) == SelectSeq(events, LAMBDA e : e.is_master)

\* C32: the events that are no master events do not count: the durations of
\* a sequence are the durations of its master events alone, for the device's
\* accumulator, the server's, and the scan of the log analysis; two master
\* events of one node are one interval whatever other events lie between.
C32_NonMasterEventsDoNotCount ==
    LET masters == MasterEvents(acc_events)
    IN  /\ acc_out = AccResult(masters, acc_cutoff, acc_now)
        /\ AnalyzeScan(acc_events, Len(acc_events)).duration
               = AnalyzeScan(masters, Len(masters)).duration

\* two master events of node 1 with an event of node 2 that is no master
\* event between them, credited as one interval
C32_Witness ==
    /\ Len(acc_events) = 3
    /\ acc_cutoff = 0
    /\ acc_events[1].is_master /\ acc_events[1].ip = 1 /\ acc_events[1].timestamp > 0
    /\ ~acc_events[2].is_master /\ acc_events[2].ip = 2
    /\ acc_events[2].timestamp > acc_events[1].timestamp
    /\ acc_events[3].is_master /\ acc_events[3].ip = 1
    /\ acc_events[3].timestamp > acc_events[2].timestamp
    /\ acc_out.device[1] = acc_now - acc_events[1].timestamp
    /\ acc_out.server[1] = acc_out.device[1]

\* the rows of a log are events at or after second start, and their
\* accumulated durations fit between start and until
RowsWithin(lines, start, until) ==
    \A i \in Indices(lines) :
        IsRow(lines[i]) =>
            /\ FromIsoFormat(lines[i].timestamp) >= start
            /\ lines[i].master_duration <= Fmt2(until - start)

\* the summary of a log lists nodes with a master row in that log, with
\* durations that fit between start and the end of the session
FooterWithin(lines, start) ==
    \A i \in Indices(lines) :
        IsSummary(lines[i]) =>
            /\ \E j \in Indices(lines) :
                   /\ IsRow(lines[j]) /\ lines[j].ip = lines[i].ip
                   /\ ParseIsMaster(lines[j].is_master)
            /\ lines[i].duration <= Fmt2(EndedAt(lines) - start)

\* the buffer, the master set and the durations hold events at or after
\* second start only
SessionWithin(buf, masters, durations, start) ==
    /\ \A i \in Indices(buf) : buf[i].timestamp >= start
    /\ masters \subseteq MasterIps(buf)
    /\ \A ip \in Nodes :
           /\ durations[ip] <= now - start
           /\ durations[ip] > 0 => ip \in MasterIps(buf)

Resends ==
    /\ pc["web"] = "send" /\ logging_active /\ IsOpen(current_log_file)
    /\ \E i \in Indices(Payload.graph_data), j \in Indices(session_data_buffer) :
           /\ Payload.graph_data[i].timestamp = session_data_buffer[j].timestamp
           /\ Payload.graph_data[i].ip = session_data_buffer[j].ip

\* C34: no two entries of the session buffer of the server have the same
\* timestamp and the same node address, and no log of the server has two
\* rows with the same timestamp and node address: an event is appended and
\* written at most once in a session, however often it is sent.
C34_ServerLogsAnEventOnce ==
    /\ \A i, j \in Indices(session_data_buffer) :
           (session_data_buffer[i].timestamp = session_data_buffer[j].timestamp
                /\ session_data_buffer[i].ip = session_data_buffer[j].ip) => i = j
    /\ \A name \in DOMAIN srv_fs :
           \A i, j \in Indices(srv_fs[name]) :
               (IsRow(srv_fs[name][i]) /\ IsRow(srv_fs[name][j])
                    /\ srv_fs[name][i].timestamp = srv_fs[name][j].timestamp
                    /\ srv_fs[name][i].ip = srv_fs[name][j].ip) => i = j

C34_Witness ==
    /\ Resends
    /\ Len(Payload.graph_data) > Len(session_data_buffer)

\* a step of the listener: a message is taken, or its handler goes on
Ingests ==
    \/ pc["udp"] = "idle" /\ (msgs' # msgs \/ graph_start_time' # graph_start_time)
    \/ pc["udp"] # "idle"

\* C35: a message handled while the device is not recording leaves the
\* session buffer, the master set, the session durations and every log file
\* as they were, and the handler ends with that step; the node state and the
\* live buffer are all it changes.
C35_IdleIngestLeavesSessionAlone ==
    [][(~logging_active /\ Ingests) =>
           /\ UNCHANGED <<session_data, all_masters_in_session, master_duration_data,
                          dev_fs, srv_fs>>
           /\ UNCHANGED <<logging_active, session_start_time, log_file, log_filename,
                          session_data_buffer, srv_all_masters_in_session>>
           /\ pc'["udp"] = "idle"]_vars

C35_Witness ==
    /\ AllIdle /\ ~logging_active
    /\ session_data # <<>> /\ HasFooter(dev_fs[log_filename])
    /\ \E i \in Indices(graph_data_unified) :
           \A j \in Indices(session_data) :
               graph_data_unified[i].timestamp > session_data[j].timestamp

\* C36: in every state of the device, the states between two statements of
\* the listener included, at most one node has its master flag set.
C36_AtMostOneMasterFlag ==
    Cardinality({ip \in Nodes : node_is_master[ip]}) <= 1

\* the sum of a duration map
Total(durations) == durations[1] + durations[2] + durations[3]

\* the durations are not negative, and together at most the time from the
\* first master event of the window to current_time
WithinSpan(durations, events, window_start, current_time) ==
    LET m == WindowMasters(events, window_start)
    IN  /\ \A ip \in Nodes : durations[ip] >= 0
        /\ Total(durations) <= (IF m = <<>> THEN 0 ELSE current_time - m[1].timestamp)

\* C37: for every time-ordered event sequence and every query time at or
\* after its last event, each duration is at least zero and the durations of
\* all nodes together are at most the time from the first master event of the
\* window to the query (zero when the window has no master event): for the
\* accumulator of a session and for the one of the display.
C37_DurationsWithinSpan ==
    /\ WithinSpan(acc_out.device, acc_events, acc_cutoff, acc_now)
    /\ WithinSpan(acc_out.graph, acc_events, acc_now - GRAPH_TIME_WINDOW, acc_now)

C37_Witness ==
    /\ Len(acc_events) = MaxAccLen
    /\ acc_events[1].is_master /\ acc_events[1].timestamp < acc_cutoff
    /\ acc_events[1].timestamp < acc_now - GRAPH_TIME_WINDOW
    /\ Total(acc_out.device) > 0 /\ Total(acc_out.graph) > 0
    /\ Total(acc_out.device) < acc_now - WindowMasters(acc_events, acc_cutoff)[1].timestamp

\* floor(d / ROW_TIME) of a duration that is not negative
RowsOf(d) ==
    CHOOSE n \in 0..(d * ROW_TIME[2]) :
        n * ROW_TIME[1] <= d * ROW_TIME[2] /\ (n + 1) * ROW_TIME[1] > d * ROW_TIME[2]

\* C39: calculate_matrix_graph lights, for each node, min(floor(D / ROW_TIME),
\* NUM_ROWS) rows, D being the duration of section 4.1 of the node over the
\* events of the last GRAPH_TIME_WINDOW seconds; the lit rows are the ones
\* with the highest indices, up to NUM_ROWS - 1, at intensity 2, and every
\* other row is 0.
C39_BarIsDurationInRows ==
    LET D == Section41(acc_events, acc_now - GRAPH_TIME_WINDOW, acc_now)
    IN  \A ip \in Nodes :
            LET k == IF RowsOf(D[ip]) <= NUM_ROWS THEN RowsOf(D[ip]) ELSE NUM_ROWS
                lit == {row \in 0..(NUM_ROWS - 1) : acc_out.matrix[ip][row] = 2}
            IN  /\ DOMAIN acc_out.matrix[ip] = 0..(NUM_ROWS - 1)
                /\ Cardinality(lit) = k
                /\ lit = (NUM_ROWS - k)..(NUM_ROWS - 1)
                /\ \A row \in 0..(NUM_ROWS - 1) : row \notin lit => acc_out.matrix[ip][row] = 0

C39_Witness ==
    /\ \E i \in Indices(acc_events) :
           acc_events[i].is_master /\ acc_events[i].timestamp < acc_now - GRAPH_TIME_WINDOW
    /\ \E ip \in Nodes : acc_out.matrix[ip][NUM_ROWS - 1] = 2 /\ acc_out.matrix[ip][0] = 0

\* an_out answers a request for a file
Asked == "request" \in DOMAIN an_out

\* the name starts with 'swarm_log_' and ends with '.csv'
LogName(filename) == filename.prefix = "swarm_log_" /\ filename.suffix = ".csv"

\* the directory the request names holds no file of the name it names
NotThere(request) ==
    LET fs == IF request.source = "local" THEN srv_fs
              ELSE IF request.source = "rpi" /\ request.rpi_dir_known THEN dev_fs
              ELSE <<>>
    IN  request.filename.stem \notin DOMAIN fs

Refused(status) ==
    /\ an_out.status = status
    /\ an_file = NotOpened
    /\ ~an_out.analysis.ok
    /\ an_out.body = <<>>

\* C38, as stated: the analyze and the download endpoints answer 400 for
\* every file name that does not both start with 'swarm_log_' and end with
\* '.csv', and 404 for a name of that form that does not exist; no file is
\* opened or analysed in either case.
C38_BadNamesAndMissingFiles ==
    Asked =>
        /\ ~LogName(an_out.request.filename) => Refused(400)
        /\ (LogName(an_out.request.filename) /\ NotThere(an_out.request)) => Refused(404)

\* C38, amended: the endpoints answer 400 for every file name that does not
\* both start with 'swarm_log_' and end with '.csv'; for a name of that form
\* the analyze endpoint answers 400 when the source is neither 'local' nor
\* 'rpi', and otherwise the endpoints answer 404 when the directory of the
\* source is unknown or holds no such file; no file is opened or analysed in
\* any of these cases.
C38_BadNamesSourcesAndMissingFiles ==
    Asked =>
        LET q == an_out.request
        IN  /\ ~LogName(q.filename) => Refused(400)
            /\ (LogName(q.filename) /\ q.source \notin {"local", "rpi"}) => Refused(400)
            /\ (LogName(q.filename) /\ q.source \in {"local", "rpi"} /\ NotThere(q))
                   => Refused(404)

C38_Witness ==
    /\ Asked /\ LogName(an_out.request.filename)
    /\ an_out.request.source = "local" /\ an_out.request.endpoint = "download"
    /\ NotThere(an_out.request) /\ srv_fs # <<>>
    /\ an_out.status = 404

====
